---- MODULE Spec2Model ----
(***************************************************************************)
(* Verification model of the crypto-signal-system worker core:             *)
(*   - the worker supervisor BaseBot (shared/core/base_bot.py),            *)
(*   - the MarketDataBot overrides of start/stop (market-data-bot/main.py),*)
(*   - the event publisher facade (shared/messaging/event_publisher.py),   *)
(*   - the envelope schema (shared/messaging/message_types.py).            *)
(* asyncio is cooperative: one action is the code that runs between two    *)
(* suspension points (await) of one task.                                  *)
(***************************************************************************)
EXTENDS Integers, Sequences, FiniteSets, Bags, TLC

VARIABLES
    running,        \* BaseBot._running
    paused,         \* BaseBot._paused
    shutdown,       \* BaseBot._shutdown_event is set
    hbAge,          \* now - BaseBot._last_heartbeat, None before the first heartbeat
    error_count,    \* BaseBot._error_count
    success_count,  \* BaseBot._success_count
    task,           \* bag of the coroutines running start(), stop(), restart(): pc, sleep timer
    exited,         \* sys.exit(1) was executed
    starts,         \* history: number of times start() passed its guard
    runCleanups,    \* history: cleanup() invocations since the latest start
    mdStatus,       \* MarketDataBot.status
    mdShutdown,     \* MarketDataBot._shutdown_event is set
    mdCollector,    \* MarketDataBot.collector is set
    mdPeers,        \* MarketDataBot.tasks: the state of each peer task
    mdMain,         \* position of main() of the market data bot
    mdStops,        \* bag of the coroutines running MarketDataBot.stop()
    mdExit,         \* exit code of the market data bot process, None while it runs
    mdStopCalls,    \* history: number of stop() calls
    mdCollectorStops, \* history: number of collector.stop() calls
    mdCleanups,     \* history: number of cleanup() calls
    busCount,       \* number of RabbitMQClient.publish() calls the publisher made
    lastPublish,    \* arguments of the latest RabbitMQClient.publish() call
    lastCall,       \* the latest call of the publisher: its message and what came of it
    signal,         \* the signal data the caller hands to publish_signal
    codecMsg,       \* the message object m handed to to_json
    codecWire,      \* what to_json produced: the JSON text, or the exception raised
    codecBack,      \* what MessageFactory.from_json made of the JSON text
    codecPc,        \* "message", "encoded", "encode_failed", "decoded"
    cqMode,         \* how the queue was declared and the consumer started: dlx, auto_ack
    cqQueue,        \* messages waiting in the broker queue
    cqDone,         \* what became of each delivered message, in delivery order
    rtBound,        \* bindings of the consumer's queue: exchange and routing pattern
    rtReceived,     \* routing keys of the messages the queue received
    rtLast,         \* the latest message routed by the broker and whether the queue got it
    rtDeclare,      \* the latest declare_queue call: its arguments, how it ended, self.queues
    connFlag,       \* RabbitMQClient._is_connected
    connCur,        \* RabbitMQClient.connection: the number of the connection, 0 for None
    connState,      \* the connections the client opened, in order: "open" or "closed"
    connTasks,      \* bag of the connect() and disconnect() coroutines at an await
    rtyCall,        \* the operation called and the retry_on_error arguments it is wrapped with
    rtyAttempt,     \* attempt of the wrapper's for loop
    rtyDelay,       \* current_delay
    rtySlept,       \* the delays slept so far, in order
    rtyPc,          \* "call", "sleep", "returned", "raised"
    rtyRaised,      \* the exception the caller got, "" for none
    rtyCaught,      \* the exception func raised in the latest failed attempt, "" for none
    tpConn,         \* RabbitMQClient.connection and channel: number of the connection, 0 for None
    tpFlag,         \* RabbitMQClient._is_connected
    tpExch,         \* RabbitMQClient.exchanges: the connection they were declared on, 0 for {}
    tpQueues,       \* RabbitMQClient.queues: per queue name the connection it was declared on, 0 for absent
    tpLast,         \* the latest call on the client and how it ended
    idIssued,       \* the message ids one publisher generated, in order
    colBatchSize,   \* config processing.batch_size of the collector
    colRunning,     \* the collection and batch tasks of the market data bot are alive
    colBuf,         \* per kind the length of MarketDataCollector.<kind>_buffer
    colCollected,   \* history: per kind the records the collector buffered
    colStored,      \* history: per kind the records the storage writer wrote, with repeats
    colBatch,       \* process_batch: idle, or awaiting the write of a batch it took
    colStop,        \* MarketDataCollector.stop: not called, awaiting a flush, done
    colStops        \* history: number of stop() calls on the collector

botVars == <<running, paused, shutdown, hbAge, error_count, success_count, task,
             exited, starts, runCleanups>>

mdVars == <<mdStatus, mdShutdown, mdCollector, mdPeers, mdMain, mdStops, mdExit,
            mdStopCalls, mdCollectorStops, mdCleanups>>

pubVars == <<busCount, lastPublish, lastCall, signal>>

codecVars == <<codecMsg, codecWire, codecBack, codecPc>>

cqVars == <<cqMode, cqQueue, cqDone>>

rtVars == <<rtBound, rtReceived, rtLast, rtDeclare>>

connVars == <<connFlag, connCur, connState, connTasks>>

rtyVars == <<rtyCall, rtyAttempt, rtyDelay, rtySlept, rtyPc, rtyRaised, rtyCaught>>

topoVars == <<tpConn, tpFlag, tpExch, tpQueues, tpLast>>

idVars == <<idIssued>>

colVars == <<colBatchSize, colRunning, colBuf, colCollected, colStored, colBatch, colStop,
             colStops>>

vars == <<botVars, mdVars, pubVars, codecVars, cqVars, rtVars, connVars, rtyVars,
          topoVars, idVars,
          colVars>>

\* what the steps of one component leave alone
notBot == <<mdVars, pubVars, codecVars, cqVars, rtVars, connVars, rtyVars, topoVars, idVars,
          colVars>>

notMD == <<botVars, pubVars, codecVars, cqVars, rtVars, connVars, rtyVars, topoVars, idVars,
          colVars>>

notPub == <<botVars, mdVars, codecVars, cqVars, rtVars, connVars, rtyVars, topoVars, idVars,
          colVars>>

notCodec == <<botVars, mdVars, pubVars, cqVars, rtVars, connVars, rtyVars, topoVars, idVars,
          colVars>>

notCq == <<botVars, mdVars, pubVars, codecVars, rtVars, connVars, rtyVars, topoVars, idVars,
          colVars>>

notRt == <<botVars, mdVars, pubVars, codecVars, cqVars, connVars, rtyVars, topoVars, idVars,
          colVars>>

notConn == <<botVars, mdVars, pubVars, codecVars, cqVars, rtVars, rtyVars, topoVars, idVars,
          colVars>>

notRty == <<botVars, mdVars, pubVars, codecVars, cqVars, rtVars, connVars, topoVars, idVars,
          colVars>>

notTopo == <<botVars, mdVars, pubVars, codecVars, cqVars, rtVars, connVars, rtyVars,
             idVars,
          colVars>>

notIds == <<botVars, mdVars, pubVars, codecVars, cqVars, rtVars, connVars, rtyVars,
            topoVars,
          colVars>>

notCol == <<botVars, mdVars, pubVars, codecVars, cqVars, rtVars, connVars, rtyVars,
            topoVars, idVars>>

-----------------------------------------------------------------------------
(* Bounds of the model *)
MaxTasks == 2
MaxStarts == 2
MaxSuccess == 1
Interval == 1
MaxPeers == 2
MaxStopCalls == 2
MaxPublishes == 1
MaxTime == 1
MaxMsgs == 3
MaxBindings == 1
MaxClientCalls == 2
MaxConnects == 3
MaxAttempts == 4
MaxIds == 4
MaxFetches == 2
FetchSize == 10
MaxAppends == 3
MaxCollectorStops == 2

(* Program constants *)
MAX_CONSECUTIVE_ERRORS == 5
BaseDelay == 5
MaxDelay == 60
PauseSleep == 1
RestartSleep == 2

None == -1

Min(a, b) == IF a < b THEN a ELSE b

Rec(p, n) == [pc |-> p, timer |-> n]

Tasks == BagToSet(task)

\* the coroutine r continues as the records of S (none: it has returned)
Continue(r, S) == (task (-) SetToBag({r})) (+) SetToBag(S)

\* a caller's coroutine comes into being
CanSpawn == BagCardinality(task) < MaxTasks

Spawn(S) == task (+) SetToBag(S)

NumAt(b, P) ==
    LET S == {r \in BagToSet(b) : r.pc \in P}
        F[T \in SUBSET S] ==
            IF T = {} THEN 0
            ELSE LET x == CHOOSE y \in T : TRUE IN b[x] + F[T \ {x}]
    IN F[S]

CleanupPcs == {"loop_cleanup", "exc_cleanup", "stop_cleanup", "r_cleanup"}

SleepPcs == {"wait", "backoff", "pause_sleep", "r_sleep"}

-----------------------------------------------------------------------------
IsHealthy_Inclusive ==
    IF ~running THEN FALSE
    ELSE IF hbAge = None THEN FALSE
    ELSE hbAge <= Interval * 2

(* BaseBot.is_healthy *)
IsHealthy ==
    IF ~running THEN FALSE
    ELSE IF hbAge = None THEN FALSE
    ELSE hbAge < Interval * 2

(* a retry_delay that does not grow with the error count *)
RetryDelay_Flat(n) == Min(MaxDelay, BaseDelay)

(* BaseBot._handle_error: retry_delay *)
RetryDelay(n) == Min(MaxDelay, BaseDelay * n)

(* BaseBot._update_heartbeat: _last_heartbeat = now *)
UpdateHeartbeat == hbAge' = 0

LoopHead_Forever(r) ==
    IF paused
    THEN /\ task' = Continue(r, {Rec("pause_sleep", PauseSleep)})
         /\ hbAge' = hbAge
    ELSE /\ UpdateHeartbeat
         /\ task' = Continue(r, {Rec("process", 0)})

(* the head of the while loop of _run_loop, up to the await of process() *)
LoopHead(r) ==
    IF ~running
    THEN /\ task' = Continue(r, {})
         /\ hbAge' = hbAge
    ELSE IF paused
    THEN /\ task' = Continue(r, {Rec("pause_sleep", PauseSleep)})
         /\ hbAge' = hbAge
    ELSE /\ UpdateHeartbeat
         /\ task' = Continue(r, {Rec("process", 0)})

(* BaseBot.stop up to the await of cleanup(): old is the coroutine that calls it
   (none: a new one), cleanupPc where it awaits cleanup(), returnTo how the caller
   goes on when stop() returns at once *)
StopEntry(old, cleanupPc, returnTo) ==
    IF ~running
    THEN /\ task' = (task (-) SetToBag(old)) (+) SetToBag(returnTo)
         /\ UNCHANGED <<running, shutdown, runCleanups>>
    ELSE /\ running' = FALSE
         /\ shutdown' = TRUE
         /\ runCleanups' = runCleanups + 1
         /\ task' = (task (-) SetToBag(old)) (+) SetToBag({Rec(cleanupPc, 0)})

(* BaseBot.start up to the await of initialize() *)
StartEntry(old) ==
    IF running
    THEN /\ task' = task (-) SetToBag(old)
         /\ UNCHANGED <<running, starts, runCleanups>>
    ELSE /\ starts < MaxStarts
         /\ running' = TRUE
         /\ starts' = starts + 1
         /\ runCleanups' = 0
         /\ task' = (task (-) SetToBag(old)) (+) SetToBag({Rec("init", 0)})

ThresholdCheck_Late(r, ec) ==
    IF ec > MAX_CONSECUTIVE_ERRORS
    THEN /\ StopEntry({r}, "loop_cleanup", {})
         /\ hbAge' = hbAge
    ELSE /\ LoopHead(r)
         /\ UNCHANGED <<running, shutdown, runCleanups>>

(* the threshold check that ends an iteration of _run_loop *)
ThresholdCheck(r, ec) ==
    IF ec >= MAX_CONSECUTIVE_ERRORS
    THEN /\ StopEntry({r}, "loop_cleanup", {})
         /\ hbAge' = hbAge
    ELSE /\ LoopHead(r)
         /\ UNCHANGED <<running, shutdown, runCleanups>>

-----------------------------------------------------------------------------
(* a caller invokes start() *)
StartCall ==
    /\ ~exited /\ CanSpawn
    /\ StartEntry({})
    /\ UNCHANGED <<paused, shutdown, hbAge, error_count, success_count, exited>>
    /\ UNCHANGED notBot

(* initialize() returns: start() enters _run_loop *)
InitializeOk(r) ==
    /\ ~exited /\ r.pc = "init"
    /\ LoopHead(r)
    /\ UNCHANGED <<running, paused, shutdown, error_count, success_count, exited,
                   starts, runCleanups>>
    /\ UNCHANGED notBot

(* an except branch of start() that exits without awaiting stop() *)
InitializeFail_NoStop(r) ==
    /\ ~exited /\ r.pc = "init"
    /\ task' = Continue(r, {})
    /\ exited' = TRUE
    /\ UNCHANGED <<running, shutdown, runCleanups>>
    /\ UNCHANGED <<paused, hbAge, error_count, success_count, starts>>
    /\ UNCHANGED notBot

(* initialize() raises: start() logs, awaits stop() and exits the process *)
InitializeFail(r) ==
    /\ ~exited /\ r.pc = "init"
    /\ StopEntry({r}, "exc_cleanup", {})
    /\ exited' = ~running
    /\ UNCHANGED <<paused, hbAge, error_count, success_count, starts>>
    /\ UNCHANGED notBot

(* process() returns: metrics, then _wait_interval *)
ProcessOk(r) ==
    /\ ~exited /\ r.pc = "process"
    /\ success_count < MaxSuccess
    /\ success_count' = success_count + 1
    /\ error_count' = 0
    /\ task' = Continue(r, {Rec("wait", Interval)})
    /\ UNCHANGED <<running, paused, shutdown, hbAge, exited, starts, runCleanups>>
    /\ UNCHANGED notBot

(* process() raises a BotError or another Exception: count it, _handle_error sleeps *)
ProcessFail(r) ==
    /\ ~exited /\ r.pc = "process"
    /\ error_count' = error_count + 1
    /\ task' = Continue(r, {Rec("backoff", RetryDelay(error_count + 1))})
    /\ UNCHANGED <<running, paused, shutdown, hbAge, success_count, exited, starts,
                   runCleanups>>
    /\ UNCHANGED notBot

(* process() raises in a worker whose _record_error awaits a store: the error is
   counted, _handle_error computes retry_delay and awaits _record_error *)
ProcessFailStore(r) ==
    /\ ~exited /\ r.pc = "process"
    /\ error_count' = error_count + 1
    /\ task' = Continue(r, {Rec("record_error", RetryDelay(error_count + 1))})
    /\ UNCHANGED <<running, paused, shutdown, hbAge, success_count, exited, starts,
                   runCleanups>>
    /\ UNCHANGED notBot

(* _record_error returns: _handle_error sleeps retry_delay *)
RecordErrorOk(r) ==
    /\ ~exited /\ r.pc = "record_error"
    /\ task' = Continue(r, {Rec("backoff", r.timer)})
    /\ UNCHANGED <<running, paused, shutdown, hbAge, error_count, success_count, exited,
                   starts, runCleanups>>
    /\ UNCHANGED notBot

(* _record_error raises: the exception leaves _handle_error, the except clause and
   _run_loop; start() logs it, awaits stop() and exits the process *)
RecordErrorFail(r) ==
    /\ ~exited /\ r.pc = "record_error"
    /\ StopEntry({r}, "exc_cleanup", {})
    /\ exited' = ~running
    /\ UNCHANGED <<paused, hbAge, error_count, success_count, starts>>
    /\ UNCHANGED notBot

(* _wait_interval as a plain sleep: it ends only when the interval has elapsed *)
WaitDone_PlainSleep(r) ==
    /\ ~exited /\ r.pc = "wait"
    /\ r.timer = 0
    /\ ThresholdCheck(r, error_count)
    /\ UNCHANGED <<paused, error_count, success_count, exited, starts>>
    /\ UNCHANGED notBot

(* _wait_interval ends: the shutdown event is set or the interval has elapsed *)
WaitDone(r) ==
    /\ ~exited /\ r.pc = "wait"
    /\ shutdown \/ r.timer = 0
    /\ ThresholdCheck(r, error_count)
    /\ UNCHANGED <<paused, error_count, success_count, exited, starts>>
    /\ UNCHANGED notBot

(* the asyncio.sleep(retry_delay) of _handle_error ends *)
BackoffDone(r) ==
    /\ ~exited /\ r.pc = "backoff"
    /\ r.timer = 0
    /\ ThresholdCheck(r, error_count)
    /\ UNCHANGED <<paused, error_count, success_count, exited, starts>>
    /\ UNCHANGED notBot

(* the asyncio.sleep(1) of a paused loop ends: continue *)
PauseSleepDone(r) ==
    /\ ~exited /\ r.pc = "pause_sleep"
    /\ r.timer = 0
    /\ LoopHead(r)
    /\ UNCHANGED <<running, paused, shutdown, error_count, success_count, exited,
                   starts, runCleanups>>
    /\ UNCHANGED notBot

(* a caller invokes stop() *)
StopCall ==
    /\ ~exited /\ CanSpawn
    /\ StopEntry({}, "stop_cleanup", {})
    /\ UNCHANGED <<paused, hbAge, error_count, success_count, exited, starts>>
    /\ UNCHANGED notBot

(* SIGINT/SIGTERM: _signal_handler creates a task for stop() *)
SignalHandler ==
    /\ ~exited /\ CanSpawn
    /\ task' = Spawn({Rec("stop_pending", 0)})
    /\ UNCHANGED <<running, paused, shutdown, hbAge, error_count, success_count,
                   exited, starts, runCleanups>>
    /\ UNCHANGED notBot

(* a task of the signal handler that returns without calling stop() *)
SignalStopRun_NoStop(r) ==
    /\ ~exited /\ r.pc = "stop_pending"
    /\ task' = Continue(r, {})
    /\ UNCHANGED <<running, shutdown, runCleanups>>
    /\ UNCHANGED <<paused, hbAge, error_count, success_count, exited, starts>>
    /\ UNCHANGED notBot

(* the event loop runs the task the signal handler created *)
SignalStopRun(r) ==
    /\ ~exited /\ r.pc = "stop_pending"
    /\ StopEntry({r}, "stop_cleanup", {})
    /\ UNCHANGED <<paused, hbAge, error_count, success_count, exited, starts>>
    /\ UNCHANGED notBot

(* cleanup() returns or raises (stop() catches it), _log_statistics, stop() returns *)
CleanupDone(r) ==
    /\ ~exited /\ r.pc \in CleanupPcs
    /\ task' = Continue(r, IF r.pc = "r_cleanup" THEN {Rec("r_sleep", RestartSleep)}
                           ELSE {})
    /\ exited' = (r.pc = "exc_cleanup")
    /\ UNCHANGED <<running, paused, shutdown, hbAge, error_count, success_count,
                   starts, runCleanups>>
    /\ UNCHANGED notBot

(* pause() without the test of _running *)
Pause_Unguarded ==
    /\ ~exited
    /\ paused' = TRUE
    /\ UNCHANGED <<running, shutdown, hbAge, error_count, success_count, task, exited,
                   starts, runCleanups>>
    /\ UNCHANGED notBot

(* a caller invokes pause() *)
Pause ==
    /\ ~exited
    /\ paused' = (IF running THEN TRUE ELSE paused)
    /\ UNCHANGED <<running, shutdown, hbAge, error_count, success_count, task, exited,
                   starts, runCleanups>>
    /\ UNCHANGED notBot

(* a caller invokes resume() *)
Resume ==
    /\ ~exited
    /\ paused' = (IF paused THEN FALSE ELSE paused)
    /\ UNCHANGED <<running, shutdown, hbAge, error_count, success_count, task, exited,
                   starts, runCleanups>>
    /\ UNCHANGED notBot

(* a caller invokes restart(): stop(), then asyncio.sleep(2) *)
RestartCall ==
    /\ ~exited /\ CanSpawn
    /\ StopEntry({}, "r_cleanup", {Rec("r_sleep", RestartSleep)})
    /\ UNCHANGED <<paused, hbAge, error_count, success_count, exited, starts>>
    /\ UNCHANGED notBot

(* the asyncio.sleep(2) of restart() ends: start() *)
RestartSleepDone(r) ==
    /\ ~exited /\ r.pc = "r_sleep"
    /\ r.timer = 0
    /\ StartEntry({r})
    /\ UNCHANGED <<paused, shutdown, hbAge, error_count, success_count, exited>>
    /\ UNCHANGED notBot

(* BaseBot.get_status: the fields that report the state of the worker *)
GetStatus ==
    [running |-> running, paused |-> paused, success_count |-> success_count,
     error_count |-> error_count]

(* BaseBot.__repr__: the status it prints *)
Repr ==
    LET status == IF running THEN "running" ELSE "stopped"
    IN  IF paused THEN "paused" ELSE status

(* time passes: to the next timer that expires, by one second when none is pending *)
IsPending(r) == r.pc \in SleepPcs /\ r.timer > 0

Pending == {r \in Tasks : IsPending(r)}

NextDeadline ==
    IF Pending = {} THEN 1
    ELSE CHOOSE d \in {r.timer : r \in Pending} : \A r \in Pending : d <= r.timer

Elapse(r, d) == IF IsPending(r) THEN [r EXCEPT !.timer = r.timer - d] ELSE r

Tick ==
    /\ ~exited
    /\ LET d == NextDeadline
           Later(x) == [x EXCEPT !.timer = x.timer + d]
           Copies(x) == (IF x \in Tasks /\ ~IsPending(x) THEN task[x] ELSE 0)
                        + (IF x.pc \in SleepPcs /\ Later(x) \in Tasks THEN task[Later(x)] ELSE 0)
       IN  task' = [x \in {Elapse(r, d) : r \in Tasks} |-> Copies(x)]
    /\ hbAge' = IF hbAge = None THEN None ELSE Min(Interval * 2, hbAge + NextDeadline)
    /\ UNCHANGED <<running, paused, shutdown, error_count, success_count, exited,
                   starts, runCleanups>>
    /\ UNCHANGED notBot

-----------------------------------------------------------------------------
BotInit ==
    /\ running = FALSE
    /\ paused = FALSE
    /\ shutdown = FALSE
    /\ hbAge = None
    /\ error_count = 0
    /\ success_count = 0
    /\ task = EmptyBag
    /\ exited = FALSE
    /\ starts = 0
    /\ runCleanups = 0

BotNext ==
    \/ StartCall
    \/ \E r \in Tasks : InitializeOk(r)
    \/ \E r \in Tasks : InitializeFail(r)
    \/ \E r \in Tasks : ProcessOk(r)
    \/ \E r \in Tasks : ProcessFail(r)
    \/ \E r \in Tasks : WaitDone(r)
    \/ \E r \in Tasks : BackoffDone(r)
    \/ \E r \in Tasks : PauseSleepDone(r)
    \/ StopCall
    \/ SignalHandler
    \/ \E r \in Tasks : SignalStopRun(r)
    \/ \E r \in Tasks : CleanupDone(r)
    \/ RestartCall
    \/ \E r \in Tasks : RestartSleepDone(r)
    \/ Pause
    \/ Resume
    \/ Tick

(* one run of a worker: start() is called once, restart() never *)
RunNext ==
    \/ (starts = 0 /\ StartCall)
    \/ \E r \in Tasks : InitializeOk(r)
    \/ \E r \in Tasks : InitializeFail(r)
    \/ \E r \in Tasks : ProcessOk(r)
    \/ \E r \in Tasks : ProcessFail(r)
    \/ \E r \in Tasks : WaitDone(r)
    \/ \E r \in Tasks : BackoffDone(r)
    \/ \E r \in Tasks : PauseSleepDone(r)
    \/ StopCall
    \/ SignalHandler
    \/ \E r \in Tasks : SignalStopRun(r)
    \/ \E r \in Tasks : CleanupDone(r)
    \/ Pause
    \/ Resume
    \/ Tick

(* one run of a worker whose _record_error writes to a store that may fail *)
SideNext ==
    \/ (starts = 0 /\ StartCall)
    \/ \E r \in Tasks : InitializeOk(r)
    \/ \E r \in Tasks : InitializeFail(r)
    \/ \E r \in Tasks : ProcessOk(r)
    \/ \E r \in Tasks : ProcessFailStore(r)
    \/ \E r \in Tasks : RecordErrorOk(r)
    \/ \E r \in Tasks : RecordErrorFail(r)
    \/ \E r \in Tasks : WaitDone(r)
    \/ \E r \in Tasks : BackoffDone(r)
    \/ \E r \in Tasks : PauseSleepDone(r)
    \/ StopCall
    \/ SignalHandler
    \/ \E r \in Tasks : SignalStopRun(r)
    \/ \E r \in Tasks : CleanupDone(r)
    \/ Pause
    \/ Resume
    \/ Tick

-----------------------------------------------------------------------------
(* MarketDataBot (market-data-bot/src/main.py): it overrides start() and stop() *)

PeerIds == 1..MaxPeers

StopRec(p, m) == [pc |-> p, final |-> m]

(* MarketDataBot.stop up to its first await; final: called by the finally of main() *)
MDStopEntry(final) ==
    /\ mdStatus' = "STOPPED"
    /\ mdShutdown' = TRUE
    /\ mdPeers' = [p \in PeerIds |-> IF mdPeers[p] = "running" THEN "cancelling"
                                    ELSE mdPeers[p]]
    /\ mdStopCalls' = mdStopCalls + 1
    /\ IF \E p \in PeerIds : mdPeers[p] # "absent"
       THEN /\ mdStops' = mdStops (+) SetToBag({StopRec("gather", final)})
            /\ UNCHANGED <<mdCollectorStops, mdCleanups>>
       ELSE IF mdCollector
       THEN /\ mdStops' = mdStops (+) SetToBag({StopRec("collector_stop", final)})
            /\ mdCollectorStops' = mdCollectorStops + 1
            /\ UNCHANGED mdCleanups
       ELSE /\ mdStops' = mdStops (+) SetToBag({StopRec("cleanup", final)})
            /\ mdCleanups' = mdCleanups + 1
            /\ UNCHANGED mdCollectorStops

(* main(): setup() returns, start() sets STARTING and awaits collector.start() *)
MDSetupOk ==
    /\ mdExit = None /\ mdMain = "setup"
    /\ mdCollector' = TRUE
    /\ mdStatus' = "STARTING"
    /\ mdMain' = "collector_start"
    /\ UNCHANGED <<mdShutdown, mdPeers, mdStops, mdExit, mdStopCalls, mdCollectorStops,
                   mdCleanups>>
    /\ UNCHANGED notMD

(* main(): setup() raises; except: sys.exit(1), finally: stop() *)
MDSetupFail ==
    /\ mdExit = None /\ mdMain = "setup"
    /\ mdMain' = "failed"
    /\ MDStopEntry(TRUE)
    /\ UNCHANGED <<mdCollector, mdExit>>
    /\ UNCHANGED notMD

(* start(): collector.start() returns, the peer tasks are created, RUNNING *)
MDCollectorStarted ==
    /\ mdExit = None /\ mdMain = "collector_start"
    /\ mdPeers' = [p \in PeerIds |-> "running"]
    /\ mdStatus' = "RUNNING"
    /\ mdMain' = "wait_shutdown"
    /\ UNCHANGED <<mdShutdown, mdCollector, mdStops, mdExit, mdStopCalls,
                   mdCollectorStops, mdCleanups>>
    /\ UNCHANGED notMD

(* start(): collector.start() raises: ERROR, main() exits with 1 after stop() *)
MDCollectorStartFail ==
    /\ mdExit = None /\ mdMain = "collector_start"
    /\ mdMain' = "failed"
    /\ MDStopEntry(TRUE)
    /\ UNCHANGED <<mdCollector, mdExit>>
    /\ UNCHANGED notMD

(* start(): the shutdown event ends the wait; main() goes to finally: stop() *)
MDShutdownWake ==
    /\ mdExit = None /\ mdMain = "wait_shutdown"
    /\ mdShutdown
    /\ mdMain' = "returned"
    /\ MDStopEntry(TRUE)
    /\ UNCHANGED <<mdCollector, mdExit>>
    /\ UNCHANGED notMD

(* SIGINT/SIGTERM: the handler installed by setup() sets the shutdown event *)
MDSignal ==
    /\ mdExit = None /\ mdMain \in {"collector_start", "wait_shutdown"}
    /\ mdShutdown' = TRUE
    /\ UNCHANGED <<mdStatus, mdCollector, mdPeers, mdMain, mdStops, mdExit,
                   mdStopCalls, mdCollectorStops, mdCleanups>>
    /\ UNCHANGED notMD

(* another coroutine calls stop() *)
MDStopCall ==
    /\ mdExit = None
    /\ mdStopCalls < MaxStopCalls
    /\ MDStopEntry(FALSE)
    /\ UNCHANGED <<mdCollector, mdMain, mdExit>>
    /\ UNCHANGED notMD

(* a peer task sees the shutdown event set at the head of its loop and returns *)
MDPeerExit(p) ==
    /\ mdExit = None /\ mdPeers[p] = "running"
    /\ mdShutdown
    /\ mdPeers' = [mdPeers EXCEPT ![p] = "done"]
    /\ UNCHANGED <<mdStatus, mdShutdown, mdCollector, mdMain, mdStops, mdExit,
                   mdStopCalls, mdCollectorStops, mdCleanups>>
    /\ UNCHANGED notMD

(* a cancelled peer task receives CancelledError and ends *)
MDPeerCancelled(p) ==
    /\ mdExit = None /\ mdPeers[p] = "cancelling"
    /\ mdPeers' = [mdPeers EXCEPT ![p] = "done"]
    /\ UNCHANGED <<mdStatus, mdShutdown, mdCollector, mdMain, mdStops, mdExit,
                   mdStopCalls, mdCollectorStops, mdCleanups>>
    /\ UNCHANGED notMD

(* stop(): gather() returns when every peer task is done; collector.stop() *)
MDGatherDone(c) ==
    /\ mdExit = None /\ c.pc = "gather"
    /\ \A p \in PeerIds : mdPeers[p] = "done"
    /\ IF mdCollector
       THEN /\ mdStops' = (mdStops (-) SetToBag({c}))
                          (+) SetToBag({StopRec("collector_stop", c.final)})
            /\ mdCollectorStops' = mdCollectorStops + 1
            /\ UNCHANGED mdCleanups
       ELSE /\ mdStops' = (mdStops (-) SetToBag({c}))
                          (+) SetToBag({StopRec("cleanup", c.final)})
            /\ mdCleanups' = mdCleanups + 1
            /\ UNCHANGED mdCollectorStops
    /\ UNCHANGED <<mdStatus, mdShutdown, mdCollector, mdPeers, mdMain, mdExit,
                   mdStopCalls>>
    /\ UNCHANGED notMD

(* stop(): collector.stop() returns (it catches its own errors); cleanup() *)
MDCollectorStopDone(c) ==
    /\ mdExit = None /\ c.pc = "collector_stop"
    /\ mdStops' = (mdStops (-) SetToBag({c})) (+) SetToBag({StopRec("cleanup", c.final)})
    /\ mdCleanups' = mdCleanups + 1
    /\ UNCHANGED <<mdStatus, mdShutdown, mdCollector, mdPeers, mdMain, mdExit,
                   mdStopCalls, mdCollectorStops>>
    /\ UNCHANGED notMD

(* stop(): cleanup() returns or raises; after the stop() of main() the process exits *)
MDCleanupDone(c) ==
    /\ mdExit = None /\ c.pc = "cleanup"
    /\ mdStops' = mdStops (-) SetToBag({c})
    /\ mdExit' = IF c.final THEN (IF mdMain = "failed" THEN 1 ELSE 0) ELSE None
    /\ UNCHANGED <<mdStatus, mdShutdown, mdCollector, mdPeers, mdMain, mdStopCalls,
                   mdCollectorStops, mdCleanups>>
    /\ UNCHANGED notMD

MDInit ==
    /\ mdStatus = "UNSET"
    /\ mdShutdown = FALSE
    /\ mdCollector = FALSE
    /\ mdPeers = [p \in PeerIds |-> "absent"]
    /\ mdMain = "setup"
    /\ mdStops = EmptyBag
    /\ mdExit = None
    /\ mdStopCalls = 0
    /\ mdCollectorStops = 0
    /\ mdCleanups = 0

MDNext ==
    \/ MDSetupOk
    \/ MDSetupFail
    \/ MDCollectorStarted
    \/ MDCollectorStartFail
    \/ MDShutdownWake
    \/ MDSignal
    \/ MDStopCall
    \/ \E p \in PeerIds : MDPeerExit(p)
    \/ \E p \in PeerIds : MDPeerCancelled(p)
    \/ \E c \in BagToSet(mdStops) : MDGatherDone(c)
    \/ \E c \in BagToSet(mdStops) : MDCollectorStopDone(c)
    \/ \E c \in BagToSet(mdStops) : MDCleanupDone(c)

-----------------------------------------------------------------------------
(* Event publisher (shared/messaging/event_publisher.py) and the signal message
   (shared/messaging/message_types.py). Prices are in thousands; confidences and
   ratios in tenths, so that 85.5 is 855 and 4.0 is 40. *)

\* MessagePriority
LOW == 1
NORMAL == 2
HIGH == 3
CRITICAL == 4

\* the literals of the code, in tenths: 4.0, 100, 80
MinRatioField == 40
MaxConfidence == 1000
HighConfidence == 800

SignalIds == {"", "SIG_001"}
Symbols == {"", "BTCUSDT"}
SignalTypes == {"BUY", "SELL", "HOLD"}
Prices == {0, 44, 45, 48, 49}
Ratios == {39, 40}
Confidences == {-1, 0, 799, 800, 855, 1000, 1001}
NotificationTypes == {"INFO", "WARNING", "ERROR", "ALERT", "DEBUG", "alert"}

\* SignalMessage(...) as publish_signal builds it
SignalMessage(id, sym, type, entry, stop, tp, ratio, conf) ==
    [message_type |-> "signal_generated", priority |-> NORMAL,
     signal_id |-> id, symbol |-> sym, signal_type |-> type, entry_price |-> entry,
     stop_loss |-> stop, take_profit_1 |-> tp, risk_reward_ratio |-> ratio,
     final_confidence |-> conf]

\* NotificationMessage(...) as publish_notification builds it
NotificationMessage(type) ==
    [message_type |-> "notification", priority |-> NORMAL, notification_type |-> type]

SignalInputs ==
    {SignalMessage(id, sym, type, entry, stop, tp, ratio, conf) :
        id \in SignalIds, sym \in Symbols, type \in SignalTypes, entry \in Prices,
        stop \in Prices, tp \in Prices, ratio \in Ratios, conf \in Confidences}

(* validate: False from the two early returns, else the function ends without a
   return statement and the call yields None *)
Validate(m) ==
    IF ~( /\ m.signal_id # ""
          /\ m.symbol # ""
          /\ m.signal_type \in {"BUY", "SELL"}
          /\ m.entry_price > 0
          /\ m.stop_loss > 0
          /\ m.take_profit_1 > 0
          /\ m.risk_reward_ratio >= MinRatioField
          /\ 0 <= m.final_confidence /\ m.final_confidence <= MaxConfidence )
    THEN "False"
    ELSE IF m.signal_type = "BUY"
            /\ ~(m.stop_loss < m.entry_price /\ m.entry_price < m.take_profit_1)
    THEN "False"
    ELSE IF m.signal_type = "SELL"
            /\ ~(m.take_profit_1 < m.entry_price /\ m.entry_price < m.stop_loss)
    THEN "False"
    ELSE "None"

\* Python truth value of what validate() returned
Truthy(v) == v = "True"

(* RoutingKey.signal *)
RoutingKeySignal(symbol, signal_type) == "signal." \o symbol \o "." \o signal_type

\* str.lower on the notification types
Lower(t) ==
    CASE t = "INFO" -> "info"
      [] t = "WARNING" -> "warning"
      [] t = "ERROR" -> "error"
      [] t = "ALERT" -> "alert"
      [] t = "DEBUG" -> "debug"
      [] t = "alert" -> "alert"

(* RoutingKey.notification *)
RoutingKeyNotification(level) == "notification." \o level

(* publish_signal: the priority of a signal *)
SignalPriority(final_confidence) ==
    IF final_confidence >= HighConfidence THEN HIGH ELSE NORMAL

\* the table with ALERT one level too low
NotificationPriority_AlertHigh(t) ==
    CASE t = "INFO" -> LOW
      [] t = "WARNING" -> NORMAL
      [] t = "ERROR" -> HIGH
      [] t = "ALERT" -> HIGH
      [] OTHER -> NORMAL

(* publish_notification: the priority table, NORMAL for a type not in it *)
NotificationPriority(t) ==
    CASE t = "INFO" -> LOW
      [] t = "WARNING" -> NORMAL
      [] t = "ERROR" -> HIGH
      [] t = "ALERT" -> CRITICAL
      [] OTHER -> NORMAL

(* RabbitMQClient.publish: priority_value = (priority or message.priority).value *)
BrokerPriority(priority, message) ==
    IF priority # None THEN priority ELSE message.priority

(* BaseMessage.to_dict: the priority field of the encoded envelope *)
EnvelopePriority(message) == message.priority

NoPublish == [exchange |-> "", routing_key |-> "", priority |-> None, message_type |-> ""]

\* the publisher calls self.rabbitmq.publish(message, exchange, routing_key, priority)
BusPublish(message, exchange, routing_key, priority) ==
    /\ busCount < MaxPublishes
    /\ busCount' = busCount + 1
    /\ lastPublish' = [exchange |-> exchange, routing_key |-> routing_key,
                       priority |-> BrokerPriority(priority, message),
                       message_type |-> message.message_type]

\* publish_signal without the validate() check
PublishSignalBody_NoValidate(m) ==
    /\ BusPublish(m, "crypto_signals", RoutingKeySignal(m.symbol, m.signal_type),
                  SignalPriority(m.final_confidence))
    /\ lastCall' = [op |-> "signal", message |-> m, validate |-> Validate(m),
                    outcome |-> "published"]

(* EventPublisher.publish_signal *)
PublishSignalBody(m) ==
    IF ~Truthy(Validate(m))
    THEN /\ lastCall' = [op |-> "signal", message |-> m, validate |-> Validate(m),
                         outcome |-> "logged Invalid signal data"]
         /\ UNCHANGED <<busCount, lastPublish>>
    ELSE /\ BusPublish(m, "crypto_signals", RoutingKeySignal(m.symbol, m.signal_type),
                       SignalPriority(m.final_confidence))
         /\ lastCall' = [op |-> "signal", message |-> m, validate |-> Validate(m),
                         outcome |-> "published"]

PublishSignal ==
    /\ PublishSignalBody(signal)
    /\ UNCHANGED <<signal, notPub>>

(* EventPublisher.publish_notification *)
PublishNotificationBody(m) ==
    /\ BusPublish(m, "crypto_events", RoutingKeyNotification(Lower(m.notification_type)),
                  NotificationPriority(m.notification_type))
    /\ lastCall' = [op |-> "notification", message |-> m, validate |-> "",
                    outcome |-> "published"]

PublishNotification ==
    /\ \E t \in NotificationTypes : PublishNotificationBody(NotificationMessage(t))
    /\ UNCHANGED <<signal, notPub>>

\* the signal of test_publisher
TestSignal == SignalMessage("SIG_001", "BTCUSDT", "BUY", 45, 44, 49, 40, 855)

PubStart ==
    /\ busCount = 0
    /\ lastPublish = NoPublish
    /\ lastCall = [op |-> "", message |-> NotificationMessage(""), validate |-> "",
                   outcome |-> ""]

PubInit == PubStart /\ signal = TestSignal

\* any signal data may be submitted
PubInitAny == PubStart /\ signal \in SignalInputs

PubNext ==
    \/ PublishSignal
    \/ PublishNotification

-----------------------------------------------------------------------------
(* Message encoding (shared/messaging/message_types.py): to_dict, to_json,
   from_dict and MessageFactory. A field value carries its Python type; decimal
   numbers are in tenths, and err is the rounding error of a binary float. *)

Val(t, v) == [t |-> t, v |-> v, err |-> 0]

Datetime(n) == Val("datetime", n)

PyDecimal(n) == Val("Decimal", n)

PyFloat(n) == Val("float", n)

PyNone == Val("NoneType", 0)

\* the message has no such field
Absent == Val("absent", 0)

\* MESSAGE_CLASSES: the message type value of each class
Variants ==
    {"price_update", "news_article", "signal_generated", "technical_analysis",
     "pattern_detected", "prediction_update", "notification", "bot_heartbeat",
     "command", "response"}

Times == 0 .. MaxTime

\* 1.5 has an exact binary float, 0.1 has none
Tenths == {15, 1}

\* published_at: datetime; last_successful_operation: Optional[datetime]
NestedTimes(variant) ==
    CASE variant = "news_article" -> {Datetime(n) : n \in Times}
      [] variant = "bot_heartbeat" -> {PyNone} \cup {Datetime(n) : n \in Times}
      [] OTHER -> {Absent}

(* a message object: the BaseMessage fields, one numeric field of the payload
   and the datetime field of the payload where the class has one *)
Message(variant, ts, prio, num, nested) ==
    [class |-> variant, message_type |-> Val("MessageType", variant),
     timestamp |-> ts, priority |-> Val("MessagePriority", prio),
     number |-> num, nested_time |-> nested]

Messages ==
    UNION {{Message(variant, Datetime(ts), prio, num, nested) :
                ts \in Times, prio \in LOW .. CRITICAL,
                num \in {PyFloat(n) : n \in Tenths} \cup {PyDecimal(n) : n \in Tenths},
                nested \in NestedTimes(variant)} : variant \in Variants}

\* datetime.isoformat
IsoFormat(d) == Val("str:iso", d.v)

\* datetime.fromisoformat
FromIsoFormat(x) == Val("datetime", x.v)

\* float(Decimal)
ToFloat(d) == [t |-> "float", v |-> d.v, err |-> IF d.v % 5 = 0 THEN 0 ELSE 1]

(* BaseMessage._convert_decimals *)
ConvertDecimals(x) == IF x.t = "Decimal" THEN ToFloat(x) ELSE x

(* BaseMessage.to_dict: the two enums and the top-level timestamp are
   converted, then every Decimal; nothing else is *)
ToDict(m) ==
    [message_type |-> Val("str", m.message_type.v),
     timestamp |-> IsoFormat(m.timestamp),
     priority |-> Val("int", m.priority.v),
     number |-> ConvertDecimals(m.number),
     nested_time |-> ConvertDecimals(m.nested_time)]

JsonTypes == {"str", "str:iso", "int", "float", "NoneType", "absent"}

DictFields == {"message_type", "timestamp", "priority", "number", "nested_time"}

\* json.dumps has no encoder for any other type
JsonSerializable(d) == \A f \in DictFields : d[f].t \in JsonTypes

(* BaseMessage.to_json *)
ToJson(m) ==
    IF JsonSerializable(ToDict(m))
    THEN [json |-> ToDict(m)]
    ELSE [raised |-> "TypeError"]

\* json.loads
JsonLoads(w) == w.json

\* the members of MessageType that MESSAGE_CLASSES has no class for
UnregisteredTypes ==
    {"orderbook_update", "trade_update", "sentiment_update", "news_alert",
     "signal_validated", "signal_invalidated", "signal_executed", "signal_closed",
     "itc_analysis", "model_trained", "model_deployed", "bot_started", "bot_stopped",
     "bot_error", "alert"}

\* MessageType: the values of the enumeration
MessageTypeValues == Variants \cup UnregisteredTypes

\* type tags of a newer producer, unknown to MessageType
UnknownTypes == {"funding_rate", "liquidation"}

\* the dictionary has keys that are not fields of BaseMessage
HasPayload(data) == data.number.t # "absent" \/ data.nested_time.t # "absent"

(* BaseMessage.from_dict, then __post_init__ of the class; the constructor of
   BaseMessage itself raises TypeError on a key that is not one of its fields *)
FromDict(class, data) ==
    IF class = "BaseMessage" /\ HasPayload(data) THEN [raised |-> "TypeError"] ELSE
    [class |-> class,
     message_type |-> Val("MessageType", IF class = "BaseMessage"
                                         THEN data.message_type.v ELSE class),
     timestamp |-> IF data.timestamp.t \in {"str", "str:iso"}
                   THEN FromIsoFormat(data.timestamp) ELSE data.timestamp,
     priority |-> Val("MessagePriority", data.priority.v),
     number |-> data.number,
     nested_time |-> data.nested_time]

(* MessageFactory.create_message *)
CreateMessage(data) ==
    IF data.message_type.v \notin MessageTypeValues
    THEN [raised |-> "ValueError"]
    ELSE IF data.message_type.v \in Variants
    THEN FromDict(data.message_type.v, data)
    ELSE FromDict("BaseMessage", data)

(* MessageFactory.from_json *)
FromJson(w) == CreateMessage(JsonLoads(w))

NoWire == [json |-> ToDict(Message("", Datetime(0), NORMAL, PyFloat(0), Absent))]

NoMessage == Message("", Datetime(0), NORMAL, PyFloat(0), Absent)

\* encode(m)
Encode ==
    /\ codecPc = "message"
    /\ codecWire' = ToJson(codecMsg)
    /\ codecPc' = IF JsonSerializable(ToDict(codecMsg)) THEN "encoded" ELSE "encode_failed"
    /\ UNCHANGED <<codecMsg, codecBack, notCodec>>

\* the call raised instead of returning
Raised(x) == "raised" \in DOMAIN x

\* decode of a JSON text
Decode ==
    /\ codecPc = "encoded"
    /\ codecBack' = FromJson(codecWire)
    /\ codecPc' = IF Raised(FromJson(codecWire)) THEN "decode_failed" ELSE "decoded"
    /\ UNCHANGED <<codecMsg, codecWire, notCodec>>

CodecStart ==
    /\ codecWire = NoWire
    /\ codecBack = NoMessage
    /\ codecPc = "message"

CodecInit ==
    /\ CodecStart
    /\ codecMsg = Message("price_update", Datetime(0), NORMAL, PyFloat(15), Absent)

\* any message of any class may be encoded
CodecInitAny == CodecStart /\ codecMsg \in Messages

CodecNext ==
    \/ Encode
    \/ Decode

\* a JSON text of another producer: any type tag, with or without payload
WireDict(type, ts, prio, num, nested) ==
    [message_type |-> Val("str", type), timestamp |-> Val("str:iso", ts),
     priority |-> Val("int", prio), number |-> num, nested_time |-> nested]

ForeignWires ==
    {[json |-> WireDict(type, ts, prio, num, Absent)] :
        type \in UnregisteredTypes \cup UnknownTypes, ts \in Times,
        prio \in LOW .. CRITICAL, num \in {Absent} \cup {PyFloat(n) : n \in Tenths}}

\* the JSON texts our own producers send
OwnWires == {ToJson(m) : m \in {x \in Messages : JsonSerializable(ToDict(x))}}

\* a JSON text arrives from the bus
DecodeInit ==
    /\ codecMsg = NoMessage
    /\ codecWire \in OwnWires \cup ForeignWires
    /\ codecBack = NoMessage
    /\ codecPc = "encoded"

DecodeNext == Decode

-----------------------------------------------------------------------------
(* Consumer (shared/messaging/rabbitmq_client.py, consume and its
   message_handler). A message in the queue is named by what will happen to it:
   it decodes and the callback returns, it does not decode, or the callback
   raises. *)

MsgKinds == {"ok", "undecodable", "callback_raises"}

Modes == [dlx : BOOLEAN, auto_ack : BOOLEAN]

\* declare_queue(dlx=True) and consume(auto_ack=False), the defaults
DefaultMode == [dlx |-> TRUE, auto_ack |-> FALSE]

(* message.reject(requeue): the broker puts the message back into the queue or
   drops it; a delivery made with no_ack cannot be rejected *)
AfterReject(queue, kind, requeue, no_ack) ==
    IF requeue /\ ~no_ack THEN Append(queue, kind) ELSE queue

(* message_handler: one delivery. The broker takes a no_ack delivery as
   acknowledged when it sends it; otherwise the handler acks after the callback
   returned, and rejects with requeue=False in the except branch. A rejected
   message goes to the dead-letter exchange if the queue was declared with
   x-dead-letter-exchange. *)
Handled(kind, mode) ==
    [kind |-> kind,
     acked |-> IF mode.auto_ack THEN 1 ELSE IF kind = "ok" THEN 1 ELSE 0,
     rejected |-> kind # "ok" /\ ~mode.auto_ack,
     dead_lettered |-> kind # "ok" /\ ~mode.auto_ack /\ mode.dlx]

\* a producer's message reaches the queue
BrokerEnqueue ==
    /\ Len(cqQueue) + Len(cqDone) < MaxMsgs
    /\ \E kind \in MsgKinds : cqQueue' = Append(cqQueue, kind)
    /\ UNCHANGED <<cqMode, cqDone, notCq>>

MessageHandler ==
    /\ cqQueue # <<>>
    /\ cqDone' = Append(cqDone, Handled(Head(cqQueue), cqMode))
    /\ cqQueue' = IF Head(cqQueue) = "ok"
                  THEN Tail(cqQueue)
                  ELSE AfterReject(Tail(cqQueue), Head(cqQueue), FALSE, cqMode.auto_ack)
    /\ UNCHANGED <<cqMode, notCq>>

ConsumeStart ==
    /\ cqQueue = <<>>
    /\ cqDone = <<>>

ConsumeInit == ConsumeStart /\ cqMode = DefaultMode

\* any arguments of declare_queue and consume
ConsumeInitAny == ConsumeStart /\ cqMode \in Modes

ConsumeNext ==
    \/ BrokerEnqueue
    \/ MessageHandler

-----------------------------------------------------------------------------
(* Queue bindings and routing (rabbitmq_client.py, _declare_exchanges and
   declare_queue). The exchanges for signals and events are declared as topic
   exchanges, so the broker matches a routing key against a binding pattern
   word by word. *)

(* _declare_exchanges: the type each exchange is declared with *)
ExchangeTypeOf_Fanout(exchange) == "fanout"

ExchangeTypeOf(exchange) ==
    CASE exchange = "crypto_signals" -> "topic"
      [] exchange = "crypto_events" -> "topic"
      [] exchange = "crypto_dlx" -> "fanout"

\* self.exchanges after connect()
DeclaredExchanges == {"crypto_signals", "crypto_events", "crypto_dlx"}

\* the routing keys and patterns in use, word by word
WordSeqs ==
    {<<"signal", sym, type>> : sym \in {"BTCUSDT", "ETHUSDT", "*"},
                               type \in {"BUY", "SELL", "*"}}
        \cup {<<"signal", "#">>, <<"signal", "BTCUSDT">>,
              <<"signal", "BTCUSDT", "BUY", "BUY">>}

RECURSIVE Join(_)
\* the words joined with dots
Join(w) == IF Len(w) = 1 THEN w[1] ELSE w[1] \o "." \o Join(Tail(w))

\* the words of a routing key or pattern
Split(key) == CHOOSE w \in WordSeqs : Join(w) = key

RECURSIVE TopicMatch(_, _)
(* matching of a topic exchange: * stands for exactly one word, # for any
   number of words *)
TopicMatch(p, k) ==
    IF p = <<>> THEN k = <<>>
    ELSE IF Head(p) = "#"
    THEN TopicMatch(Tail(p), k) \/ (k # <<>> /\ TopicMatch(p, Tail(k)))
    ELSE /\ k # <<>>
         /\ Head(p) = "*" \/ Head(p) = Head(k)
         /\ TopicMatch(Tail(p), Tail(k))

\* the broker hands a message of this exchange and key to a queue with this binding
Routes(binding, exchange, key) ==
    /\ binding.exchange = exchange
    /\ \/ ExchangeTypeOf(exchange) = "fanout"
       \/ TopicMatch(Split(binding.pattern), Split(key))

\* routing_keys a consumer passes to declare_queue
Patterns == {RoutingKeySignal("BTCUSDT", "*"), RoutingKeySignal("*", "BUY"), "signal.#"}

\* routing keys of published messages: signals, and keys of two and of four words
RoutedKeys ==
    {RoutingKeySignal(sym, type) : sym \in {"BTCUSDT", "ETHUSDT"}, type \in {"BUY", "SELL"}}
        \cup {"signal.BTCUSDT", "signal.BTCUSDT.BUY.BUY"}

\* a declare_queue call: its arguments, return or BotError, queue_name in self.queues
DeclareResult(exchange, pattern, outcome, recorded) ==
    [exchange |-> exchange, pattern |-> pattern, outcome |-> outcome,
     recorded |-> recorded]

(* declare_queue: the queue is bound with the pattern only if the exchange
   name is one of self.exchanges; in either case the queue is stored in
   self.queues and returned *)
DeclareQueue ==
    /\ Cardinality(rtBound) < MaxBindings
    /\ \E exchange \in {"crypto_signals", "crypto_events", "signals"}, pattern \in Patterns :
         /\ rtBound' = IF exchange \in DeclaredExchanges
                       THEN rtBound \cup {[exchange |-> exchange, pattern |-> pattern]}
                       ELSE rtBound
         /\ rtDeclare' = DeclareResult(exchange, pattern, "ok", TRUE)
    /\ UNCHANGED <<rtReceived, rtLast, notRt>>

\* exch.publish(aio_message, routing_key): the broker routes the message
BrokerRoute ==
    /\ \E exchange \in {"crypto_signals", "crypto_events"}, key \in RoutedKeys :
         LET delivered == \E b \in rtBound : Routes(b, exchange, key)
         IN /\ rtLast' = [exchange |-> exchange, key |-> key, bound |-> rtBound,
                          delivered |-> delivered]
            /\ rtReceived' = IF delivered THEN rtReceived \cup {key} ELSE rtReceived
    /\ UNCHANGED <<rtBound, rtDeclare, notRt>>

RouteInit ==
    /\ rtBound = {}
    /\ rtReceived = {}
    /\ rtLast = [exchange |-> "", key |-> "", bound |-> {}, delivered |-> FALSE]
    /\ rtDeclare = DeclareResult("", "", "", FALSE)

RouteNext ==
    \/ DeclareQueue
    \/ BrokerRoute

-----------------------------------------------------------------------------
(* Connection of the bus client (rabbitmq_client.py, connect and disconnect).
   Both are coroutines: the flag is tested before the first await and set after
   the last one. *)

ConnRec(p, c) == [pc |-> p, c |-> c]

ConnContinue(r, S) == (connTasks (-) SetToBag({r})) (+) SetToBag(S)

CanCallClient == BagCardinality(connTasks) < MaxClientCalls

\* the connections that are open at the broker
OpenConnections == {c \in 1 .. Len(connState) : connState[c] = "open"}

\* self.connection is set and that connection is open
CurrentOpen == connCur # 0 /\ connState[connCur] = "open"

(* connect: returns at once if the flag is set, else awaits connect_robust *)
ConnectCall ==
    /\ CanCallClient
    /\ ~connFlag
    /\ connTasks' = connTasks (+) SetToBag({ConnRec("connect_robust", 0)})
    /\ UNCHANGED <<connFlag, connCur, connState, notConn>>

\* connect on a client whose flag is set: a warning, nothing else
ConnectAgain ==
    /\ CanCallClient
    /\ connFlag
    /\ UNCHANGED vars

\* connect_robust returned: self.connection = the new connection
ConnectOpened(r) ==
    /\ r.pc = "connect_robust"
    /\ Len(connState) < MaxConnects
    /\ connState' = Append(connState, "open")
    /\ connCur' = Len(connState) + 1
    /\ connTasks' = ConnContinue(r, {ConnRec("topology", Len(connState) + 1)})
    /\ UNCHANGED <<connFlag, notConn>>

\* connect_robust raised: BotConnectionError
ConnectRefused(r) ==
    /\ r.pc = "connect_robust"
    /\ connTasks' = ConnContinue(r, {})
    /\ UNCHANGED <<connFlag, connCur, connState, notConn>>

\* channel(), set_qos and _declare_exchanges returned: the flag is set
TopologyOk(r) ==
    /\ r.pc = "topology"
    /\ connFlag' = TRUE
    /\ connTasks' = ConnContinue(r, {})
    /\ UNCHANGED <<connCur, connState, notConn>>

\* one of them raised: BotConnectionError, the connection stays as it is
TopologyFail(r) ==
    /\ r.pc = "topology"
    /\ connTasks' = ConnContinue(r, {})
    /\ UNCHANGED <<connFlag, connCur, connState, notConn>>

(* disconnect: returns at once if the flag is not set, else awaits
   self.connection.close() *)
DisconnectCall ==
    /\ CanCallClient
    /\ connFlag
    /\ connTasks' = connTasks (+) SetToBag({ConnRec("close", connCur)})
    /\ UNCHANGED <<connFlag, connCur, connState, notConn>>

\* disconnect on a client whose flag is not set: nothing
DisconnectAgain ==
    /\ CanCallClient
    /\ ~connFlag
    /\ UNCHANGED vars

\* close() returned: the flag is cleared
CloseDone(r) ==
    /\ r.pc = "close"
    /\ connState' = [connState EXCEPT ![r.c] = "closed"]
    /\ connFlag' = FALSE
    /\ connTasks' = ConnContinue(r, {})
    /\ UNCHANGED <<connCur, notConn>>

\* close() raised: the error is logged, the flag is left set
CloseFail(r) ==
    /\ r.pc = "close"
    /\ \E st \in {"open", "closed"} : connState' = [connState EXCEPT ![r.c] = st]
    /\ connTasks' = ConnContinue(r, {})
    /\ UNCHANGED <<connFlag, connCur, notConn>>

ConnInit ==
    /\ connFlag = FALSE
    /\ connCur = 0
    /\ connState = <<>>
    /\ connTasks = EmptyBag

ConnNext ==
    \/ ConnectCall
    \/ ConnectAgain
    \/ \E r \in BagToSet(connTasks) : ConnectOpened(r)
    \/ \E r \in BagToSet(connTasks) : ConnectRefused(r)
    \/ \E r \in BagToSet(connTasks) : TopologyOk(r)
    \/ \E r \in BagToSet(connTasks) : TopologyFail(r)
    \/ DisconnectCall
    \/ DisconnectAgain
    \/ \E r \in BagToSet(connTasks) : CloseDone(r)
    \/ \E r \in BagToSet(connTasks) : CloseFail(r)

-----------------------------------------------------------------------------
(* Generic retry policy (shared/core/exceptions.py, retry_on_error) and the
   operations of the bus client that are or are not wrapped with it. Delays are
   in seconds. *)

\* the defaults of retry_on_error
DefaultDelay == 1
DefaultBackoff == 2

\* @retry_on_error(max_attempts=3) on RabbitMQClient.publish
PublishMaxAttempts == 3

\* the default of the exceptions argument
RetryableExceptions == {"BotConnectionError", "BotTimeoutError", "BotAPIError"}

\* a function wrapped with retry_on_error(max_attempts, delay, backoff)
Wrapped(op, n, delay, backoff) ==
    [op |-> op, decorated |-> TRUE, max_attempts |-> n, delay |-> delay, backoff |-> backoff]

\* a function called as it is
Unwrapped(op) ==
    [op |-> op, decorated |-> FALSE, max_attempts |-> 1, delay |-> 0, backoff |-> 1]

(* the operations of RabbitMQClient: only publish carries the decorator *)
ClientCalls ==
    {Unwrapped("connect"),
     Wrapped("publish", PublishMaxAttempts, DefaultDelay, DefaultBackoff),
     Unwrapped("declare_queue")}

GenericCalls ==
    {Wrapped("func", n, delay, backoff) :
        n \in 1 .. MaxAttempts, delay \in {DefaultDelay, 5}, backoff \in {DefaultBackoff, 4}}

\* where an attempt of the operation can fail
FailureSites(op) ==
    CASE op = "connect" -> {"broker unreachable"}
      [] op = "publish" -> {"broker unreachable", "send"}
      [] op = "declare_queue" -> {"broker unreachable", "declare"}
      [] OTHER -> {"BotConnectionError", "BotTimeoutError", "BotAPIError", "BotError"}

(* the exception the operation raises for a failure at the site: connect raises
   BotConnectionError, and publish and declare_queue let it pass when they call
   connect; their own try blocks turn every exception into BotError *)
Raises(op, site) ==
    CASE site = "broker unreachable" -> "BotConnectionError"
      [] site \in {"send", "declare"} -> "BotError"
      [] OTHER -> site

\* current_delay *= backoff, with + in place of *
NextDelay_Linear(d, backoff) == d + backoff

\* current_delay *= backoff
NextDelay(d, backoff) == d * backoff

\* func returned
AttemptOk ==
    /\ rtyPc = "call"
    /\ rtyPc' = "returned"
    /\ UNCHANGED <<rtyCall, rtyAttempt, rtyDelay, rtySlept, rtyRaised, rtyCaught, notRty>>

\* a wrapper that catches every exception, not only the retryable classes
AttemptFail_RetryAll ==
    /\ rtyPc = "call"
    /\ \E site \in FailureSites(rtyCall.op) :
         /\ rtyCaught' = Raises(rtyCall.op, site)
         /\ IF /\ rtyCall.decorated
               /\ rtyAttempt # rtyCall.max_attempts
            THEN /\ rtyPc' = "sleep"
                 /\ rtySlept' = Append(rtySlept, rtyDelay)
                 /\ UNCHANGED rtyRaised
            ELSE /\ rtyPc' = "raised"
                 /\ rtyRaised' = Raises(rtyCall.op, site)
                 /\ UNCHANGED rtySlept
    /\ UNCHANGED <<rtyCall, rtyAttempt, rtyDelay, notRty>>

(* func raised: an exception of the retryable classes is caught by the wrapper,
   which sleeps current_delay unless this was the last attempt; anything else,
   and anything raised by a function without the wrapper, reaches the caller *)
AttemptFail ==
    /\ rtyPc = "call"
    /\ \E site \in FailureSites(rtyCall.op) :
         /\ rtyCaught' = Raises(rtyCall.op, site)
         /\ IF /\ rtyCall.decorated
               /\ Raises(rtyCall.op, site) \in RetryableExceptions
               /\ rtyAttempt # rtyCall.max_attempts
            THEN /\ rtyPc' = "sleep"
                 /\ rtySlept' = Append(rtySlept, rtyDelay)
                 /\ UNCHANGED rtyRaised
            ELSE /\ rtyPc' = "raised"
                 /\ rtyRaised' = Raises(rtyCall.op, site)
                 /\ UNCHANGED rtySlept
    /\ UNCHANGED <<rtyCall, rtyAttempt, rtyDelay, notRty>>

\* asyncio.sleep(current_delay) returned
RetrySleepDone ==
    /\ rtyPc = "sleep"
    /\ rtyDelay' = NextDelay(rtyDelay, rtyCall.backoff)
    /\ rtyAttempt' = rtyAttempt + 1
    /\ rtyPc' = "call"
    /\ UNCHANGED <<rtyCall, rtySlept, rtyRaised, rtyCaught, notRty>>

RetryStart ==
    /\ rtyAttempt = 1
    /\ rtyDelay = rtyCall.delay
    /\ rtySlept = <<>>
    /\ rtyPc = "call"
    /\ rtyRaised = ""
    /\ rtyCaught = ""

RetryInit == rtyCall = Wrapped("publish", PublishMaxAttempts, DefaultDelay, DefaultBackoff) /\ RetryStart

\* any wrapped function, and each operation of the bus client
RetryInitAny == rtyCall \in GenericCalls \cup ClientCalls /\ RetryStart

RetryNext ==
    \/ AttemptOk
    \/ AttemptFail
    \/ RetrySleepDone

-----------------------------------------------------------------------------
(* Topology of the bus client over reconnects (shared/messaging/rabbitmq_client.py):
   self.exchanges and self.queues hold objects of the channel they were declared
   on. One caller at a time, a broker that answers every request. *)

QueueNames == {"signals_queue", "events_queue"}

TopoResult(op, outcome, queue) == [op |-> op, outcome |-> outcome, queue |-> queue]

\* the client can open one more connection within the bound
CanReconnect == tpFlag \/ tpConn < MaxConnects

(* `if not self._is_connected: await self.connect()`: the connection in use after
   it; connect stores a new connection and channel and declares the exchanges *)
ConnAfterEnsure == IF tpFlag THEN tpConn ELSE tpConn + 1

ExchAfterEnsure == IF tpFlag THEN tpExch ELSE tpConn + 1

(* RabbitMQClient.connect *)
TopoConnect ==
    /\ CanReconnect
    /\ tpConn' = ConnAfterEnsure
    /\ tpExch' = ExchAfterEnsure
    /\ tpFlag' = TRUE
    /\ tpLast' = TopoResult("connect", "ok", "")
    /\ UNCHANGED <<tpQueues, notTopo>>

(* RabbitMQClient.disconnect: the connection is closed, the flag cleared;
   self.exchanges and self.queues are left as they are *)
TopoDisconnect ==
    /\ tpFlag' = FALSE
    /\ tpLast' = TopoResult("disconnect", "ok", "")
    /\ UNCHANGED <<tpConn, tpExch, tpQueues, notTopo>>

(* RabbitMQClient.declare_queue *)
TopoDeclareQueue(q) ==
    /\ CanReconnect
    /\ tpConn' = ConnAfterEnsure
    /\ tpExch' = ExchAfterEnsure
    /\ tpFlag' = TRUE
    /\ tpQueues' = [tpQueues EXCEPT ![q] = ConnAfterEnsure]
    /\ tpLast' = TopoResult("declare_queue", "ok", q)
    /\ UNCHANGED notTopo

(* RabbitMQClient.consume: self.queues.get(queue_name); a queue object of a closed
   channel cannot start a consumer *)
TopoConsume(q) ==
    /\ CanReconnect
    /\ tpConn' = ConnAfterEnsure
    /\ tpExch' = ExchAfterEnsure
    /\ tpFlag' = TRUE
    /\ tpLast' = TopoResult("consume",
                            IF tpQueues[q] = ConnAfterEnsure THEN "ok" ELSE "BotError", q)
    /\ UNCHANGED <<tpQueues, notTopo>>

(* RabbitMQClient.publish: self.exchanges.get(exchange), then exch.publish *)
TopoPublish ==
    /\ CanReconnect
    /\ tpConn' = ConnAfterEnsure
    /\ tpExch' = ExchAfterEnsure
    /\ tpFlag' = TRUE
    /\ tpLast' = TopoResult("publish",
                            IF ExchAfterEnsure = ConnAfterEnsure THEN "ok" ELSE "BotError", "")
    /\ UNCHANGED <<tpQueues, notTopo>>

TopoInit ==
    /\ tpConn = 0
    /\ tpFlag = FALSE
    /\ tpExch = 0
    /\ tpQueues = [q \in QueueNames |-> 0]
    /\ tpLast = TopoResult("", "", "")

TopoNext ==
    \/ TopoConnect
    \/ TopoDisconnect
    \/ \E q \in QueueNames : TopoDeclareQueue(q)
    \/ \E q \in QueueNames : TopoConsume(q)
    \/ TopoPublish

-----------------------------------------------------------------------------
(* Message ids of the event publisher (shared/messaging/event_publisher.py) *)

BotName == "market-data-bot"

\* uuid.uuid4().hex[:12]: twelve random hexadecimal digits
HexValues == {"0123456789ab", "a1b2c3d4e5f6", "ffffffffffff"}

(* EventPublisher._generate_message_id *)
GenerateMessageId ==
    /\ Len(idIssued) < MaxIds
    /\ \E h \in HexValues : idIssued' = Append(idIssued, BotName \o "_" \o h)
    /\ UNCHANGED notIds

IdInit == idIssued = <<>>

IdNext == GenerateMessageId

-----------------------------------------------------------------------------
(* Buffers of the market data collector (market-data-bot/src/collector.py) and
   the storage writer. Records are counted per kind; the writer either writes
   the whole batch or raises (storage/timescale_writer.py re-raises). *)

Kinds == <<"ohlcv", "orderbook", "trades">>

KindSet == {Kinds[i] : i \in 1..Len(Kinds)}

KindIndex(k) == CHOOSE i \in 1..Len(Kinds) : Kinds[i] = k

\* processing.batch_size of the configurations the collector runs with
BatchSizes == {10, 20}

(* process_batch: batch_size for OHLCV and trades, batch_size // 10 for the
   orderbook *)
BatchOf(k) == IF k = "orderbook" THEN colBatchSize \div 10 ELSE colBatchSize

\* records one collection step buffers: a fetch extends, the orderbook appends one
Chunk(k) == IF k = "orderbook" THEN 1 ELSE FetchSize

CanCollect(k) ==
    IF k = "orderbook" THEN colCollected[k] < MaxAppends
    ELSE colCollected[k] < MaxFetches * FetchSize

NoBatch == [pc |-> "idle", kind |-> "", n |-> 0]

Writing(k, n) == [pc |-> "write", kind |-> k, n |-> n]

StopAt(p, k) == [pc |-> p, kind |-> k]

\* the first buffer from position i on whose `if len(buffer) >= size` holds, 0 for none
NextBatch(i, buf) ==
    LET S == {j \in i..Len(Kinds) : buf[Kinds[j]] >= BatchOf(Kinds[j])}
    IN  IF S = {} THEN 0 ELSE CHOOSE j \in S : \A x \in S : j <= x

\* the first buffer from position i on that stop() finds non-empty, 0 for none
NextFlush(i, buf) ==
    LET S == {j \in i..Len(Kinds) : buf[Kinds[j]] > 0}
    IN  IF S = {} THEN 0 ELSE CHOOSE j \in S : \A x \in S : j <= x

(* process_batch from position i: the next full buffer is cut (batch = buffer[:size],
   buffer = buffer[size:]) and the write of the batch awaited; none: it returns *)
TakeBatch(i, buf) ==
    LET j == NextBatch(i, buf)
    IN  IF j = 0
        THEN /\ colBatch' = NoBatch
             /\ colBuf' = buf
        ELSE /\ colBatch' = Writing(Kinds[j], BatchOf(Kinds[j]))
             /\ colBuf' = [buf EXCEPT ![Kinds[j]] = @ - BatchOf(Kinds[j])]

(* stop() from position i: the write of the next non-empty buffer is awaited; the
   buffers are not emptied *)
TakeFlush(i) ==
    LET j == NextFlush(i, colBuf)
    IN  colStop' = IF j = 0 THEN StopAt("done", "") ELSE StopAt("flush", Kinds[j])

(* collect_ohlcv, collect_orderbook, collect_trades, _handle_websocket_data:
   processed records are put into the buffer *)
Collect(k) ==
    /\ colRunning /\ CanCollect(k)
    /\ colBuf' = [colBuf EXCEPT ![k] = @ + Chunk(k)]
    /\ colCollected' = [colCollected EXCEPT ![k] = @ + Chunk(k)]
    /\ UNCHANGED <<colBatchSize, colRunning, colStored, colBatch, colStop, colStops>>
    /\ UNCHANGED notCol

(* _process_data calls process_batch and a buffer is full *)
BatchStart ==
    /\ colRunning /\ colBatch = NoBatch
    /\ NextBatch(1, colBuf) # 0
    /\ TakeBatch(1, colBuf)
    /\ UNCHANGED <<colBatchSize, colRunning, colCollected, colStored, colStop, colStops>>
    /\ UNCHANGED notCol

(* the writer has written the batch (and _publish_to_queue, which swallows its
   errors, has returned): process_batch goes on with the next buffer *)
BatchWriteOk ==
    /\ colBatch.pc = "write"
    /\ colStored' = [colStored EXCEPT ![colBatch.kind] = @ + colBatch.n]
    /\ TakeBatch(KindIndex(colBatch.kind) + 1, colBuf)
    /\ UNCHANGED <<colBatchSize, colRunning, colCollected, colStop, colStops>>
    /\ UNCHANGED notCol

(* the writer raises: process_batch logs "Batch processing error" and returns *)
BatchWriteFail ==
    /\ colBatch.pc = "write"
    /\ colBatch' = NoBatch
    /\ UNCHANGED <<colBatchSize, colRunning, colBuf, colCollected, colStored, colStop,
                   colStops>>
    /\ UNCHANGED notCol

(* MarketDataBot.stop: the tasks are cancelled (a process_batch awaiting a write
   ends with CancelledError), then collector.stop() is called *)
CollectorStop ==
    /\ colStops < MaxCollectorStops
    /\ colStop.pc \in {"none", "done"}
    /\ colStops' = colStops + 1
    /\ colRunning' = FALSE
    /\ colBatch' = NoBatch
    /\ TakeFlush(1)
    /\ UNCHANGED <<colBatchSize, colBuf, colCollected, colStored>>
    /\ UNCHANGED notCol

(* the writer has written the buffer: stop() logs "Flushed" and goes on *)
FlushOk ==
    /\ colStop.pc = "flush"
    /\ colStored' = [colStored EXCEPT ![colStop.kind] = @ + colBuf[colStop.kind]]
    /\ TakeFlush(KindIndex(colStop.kind) + 1)
    /\ UNCHANGED <<colBatchSize, colRunning, colBuf, colCollected, colBatch, colStops>>
    /\ UNCHANGED notCol

(* the writer raises: stop() logs "Stop error" and returns *)
FlushFail ==
    /\ colStop.pc = "flush"
    /\ colStop' = StopAt("done", "")
    /\ UNCHANGED <<colBatchSize, colRunning, colBuf, colCollected, colStored, colBatch,
                   colStops>>
    /\ UNCHANGED notCol

ColStart ==
    /\ colRunning = TRUE
    /\ colBuf = [k \in KindSet |-> 0]
    /\ colCollected = [k \in KindSet |-> 0]
    /\ colStored = [k \in KindSet |-> 0]
    /\ colBatch = NoBatch
    /\ colStop = StopAt("none", "")
    /\ colStops = 0

ColInit == colBatchSize = 10 /\ ColStart

ColInitAny == colBatchSize \in BatchSizes /\ ColStart

ColNext ==
    \/ \E k \in KindSet : Collect(k)
    \/ BatchStart
    \/ BatchWriteOk
    \/ BatchWriteFail
    \/ CollectorStop
    \/ FlushOk
    \/ FlushFail

-----------------------------------------------------------------------------

Init == BotInit /\ MDInit /\ PubInit /\ CodecInit /\ ConsumeInit /\ RouteInit /\ ConnInit /\ RetryInit /\ TopoInit /\ IdInit /\ ColInit

Next == BotNext

Spec == Init /\ [][Next]_vars

SpecRun == Init /\ [][RunNext]_vars

SpecSide == Init /\ [][SideNext]_vars

SpecMD == Init /\ [][MDNext]_vars

InitPub == BotInit /\ MDInit /\ PubInitAny /\ CodecInit /\ ConsumeInit /\ RouteInit /\ ConnInit /\ RetryInit /\ TopoInit /\ IdInit /\ ColInit

SpecPub == InitPub /\ [][PubNext]_vars

InitCodec == BotInit /\ MDInit /\ PubInit /\ CodecInitAny /\ ConsumeInit /\ RouteInit /\ ConnInit /\ RetryInit /\ TopoInit /\ IdInit /\ ColInit

SpecCodec == InitCodec /\ [][CodecNext]_vars

InitDecode == BotInit /\ MDInit /\ PubInit /\ DecodeInit /\ ConsumeInit /\ RouteInit /\ ConnInit /\ RetryInit /\ TopoInit /\ IdInit /\ ColInit

SpecDecode == InitDecode /\ [][DecodeNext]_vars

InitConsume == BotInit /\ MDInit /\ PubInit /\ CodecInit /\ ConsumeInitAny /\ RouteInit /\ ConnInit /\ RetryInit /\ TopoInit /\ IdInit /\ ColInit

SpecConsume == InitConsume /\ [][ConsumeNext]_vars

SpecRoute == Init /\ [][RouteNext]_vars

SpecConn == Init /\ [][ConnNext]_vars

InitRetry ==
    BotInit /\ MDInit /\ PubInit /\ CodecInit /\ ConsumeInit /\ RouteInit /\ ConnInit /\ RetryInitAny /\ TopoInit /\ IdInit /\ ColInit

SpecRetry == InitRetry /\ [][RetryNext]_vars

SpecTopo == Init /\ [][TopoNext]_vars

SpecIds == Init /\ [][IdNext]_vars

InitBatch ==
    BotInit /\ MDInit /\ PubInit /\ CodecInit /\ ConsumeInit /\ RouteInit /\ ConnInit /\ RetryInit /\ TopoInit /\ IdInit /\ ColInitAny

SpecBatch == InitBatch /\ [][ColNext]_vars

-----------------------------------------------------------------------------
(* Properties of the worker supervisor *)

LoopPcs == {"init", "process", "record_error", "wait", "backoff", "pause_sleep",
            "loop_cleanup", "exc_cleanup"}

ProcessInvoked == NumAt(task', {"process"}) > NumAt(task, {"process"})

InitializeInvoked == NumAt(task', {"init"}) > NumAt(task, {"init"})

\* stop() has run to its end: not running, no cleanup() in progress
Stopped == starts > 0 /\ ~running /\ NumAt(task, CleanupPcs) = 0

ProcessFailed == NumAt(task', {"backoff"}) > NumAt(task, {"backoff"})

ProcessSucceeded == NumAt(task', {"wait"}) > NumAt(task, {"wait"})

\* C1: in one run of the worker the consecutive-error counter counts the failures of
\* process() since the latest success (a failure adds one, a success resets it) and
\* never passes the threshold; once it has reached the threshold no process() is
\* invoked any more, and when the loop has ended the worker is not running and
\* cleanup() was invoked exactly once.
C1_ThresholdStops ==
    /\ [](error_count <= MAX_CONSECUTIVE_ERRORS)
    /\ []((error_count = MAX_CONSECUTIVE_ERRORS /\ NumAt(task, LoopPcs) = 0)
            => (~running /\ runCleanups = 1))
    /\ [][ /\ ProcessFailed => error_count' = error_count + 1
           /\ ProcessSucceeded => error_count' = 0
           /\ (~ProcessFailed /\ ~ProcessSucceeded) => error_count' = error_count
           /\ error_count = MAX_CONSECUTIVE_ERRORS => ~ProcessInvoked ]_vars

C1_Witness ==
    /\ error_count = MAX_CONSECUTIVE_ERRORS
    /\ task = EmptyBag
    /\ ~running
    /\ runCleanups = 1
    /\ ~exited

\* BaseBot.stop alone: in one run cleanup() is invoked at most once, exactly once
\* when the worker is no longer running, and never before start()
BaseStopIdempotent ==
    /\ runCleanups <= 1
    /\ (starts > 0 /\ ~running) => runCleanups = 1
    /\ starts = 0 => (runCleanups = 0 /\ ~running /\ ~shutdown)

\* C2 as stated, for the market data worker: whatever the number of stop() calls,
\* cleanup() is invoked at most once, and a stop() on a worker that was never
\* started changes nothing
C2_StopIdempotent ==
    /\ mdCleanups <= 1
    /\ mdCollectorStops <= 1
    /\ (mdMain = "setup" /\ mdStopCalls > 0) => (mdStatus = "UNSET" /\ mdCleanups = 0)

\* C3 as stated: once Stopped, the worker is never running again
C3_StoppedIsTerminal == [][Stopped => ~running']_vars

\* C3 amended: a worker that is not running is made running again only by the entry
\* of start() (called directly or by restart()), which is also the only step that
\* invokes initialize(); stop(), pause(), resume() and the steps of the loop do
\* neither, and process() is never invoked while the worker is not running.
C3_OnlyStartRevives ==
    [][ /\ (~running /\ running') => (starts' = starts + 1 /\ InitializeInvoked)
        /\ InitializeInvoked => (~running /\ running' /\ starts' = starts + 1)
        /\ ~running => ~ProcessInvoked ]_vars

C3_Witness ==
    /\ starts = MaxStarts
    /\ running
    /\ runCleanups = 0
    /\ NumAt(task, {"process"}) > 0

\* C4: is_healthy() is true exactly when the worker is running (Running or Paused)
\* and the heartbeat is younger than twice the interval; it is false before the first
\* heartbeat and after stop, and true right after the loop has updated the heartbeat.
C4_Health ==
    /\ [](IsHealthy <=> (running /\ hbAge # None /\ hbAge < 2 * Interval))
    /\ [](hbAge = None => ~IsHealthy)
    /\ [](~running => ~IsHealthy)
    /\ [][(ProcessInvoked /\ running') => (hbAge' = 0 /\ IsHealthy')]_vars

C4_Witness == running /\ hbAge # None /\ hbAge >= 2 * Interval /\ ~IsHealthy


-----------------------------------------------------------------------------
(* Properties of the event publisher and the signal message *)

\* the call just made was publish_signal
SignalSubmitted == lastCall'.op = "signal" /\ lastCall'.message = signal

(* C5: a signal for which validate() does not return true is never handed to
   the bus client: the message of every signal publish passed validate(), and a
   call of publish_signal whose message did not pass makes no publish() call on
   the bus client; the signal is logged and dropped. *)
C5_InvalidNeverPublished ==
    /\ [](lastPublish.message_type = "signal_generated" => Validate(signal) = "True")
    /\ []((lastCall.op = "signal" /\ lastCall.validate # "True")
            => lastCall.outcome = "logged Invalid signal data")
    /\ [][(SignalSubmitted /\ Validate(signal) # "True")
            => UNCHANGED <<busCount, lastPublish>>]_vars

C5_Witness ==
    /\ lastCall.op = "signal"
    /\ lastCall.validate = "False"
    /\ lastCall.outcome = "logged Invalid signal data"
    /\ busCount = 0
    /\ lastPublish = NoPublish

\* the price ordering the side asks for
OrderingConsistent(m) ==
    \/ m.signal_type = "BUY" /\ m.stop_loss < m.entry_price /\ m.entry_price < m.take_profit_1
    \/ m.signal_type = "SELL" /\ m.take_profit_1 < m.entry_price /\ m.entry_price < m.stop_loss

Abs(x) == IF x < 0 THEN -x ELSE x

\* |target - entry| / |entry - stop| >= 4.0, with the minimum in tenths
PriceRatioAtLeastMin(m) ==
    10 * Abs(m.take_profit_1 - m.entry_price) >= MinRatioField * Abs(m.entry_price - m.stop_loss)

PricesPositive(m) == m.entry_price > 0 /\ m.stop_loss > 0 /\ m.take_profit_1 > 0

ConfidenceInRange(m) == 0 <= m.final_confidence /\ m.final_confidence <= MaxConfidence

SatisfiesAllConstraints(m) ==
    /\ m.signal_id # "" /\ m.symbol # ""
    /\ m.signal_type \in {"BUY", "SELL"}
    /\ PricesPositive(m)
    /\ ConfidenceInRange(m)
    /\ OrderingConsistent(m)
    /\ PriceRatioAtLeastMin(m)
    /\ m.risk_reward_ratio >= MinRatioField

(* C6: for every signal whose fields satisfy all constraints, validate()
   returns true. *)
C6_ValidAccepted ==
    (lastCall.op = "signal" /\ SatisfiesAllConstraints(lastCall.message))
        => lastCall.validate = "True"

ViolatesAConstraint(m) ==
    \/ m.signal_type \in {"BUY", "SELL"} /\ ~OrderingConsistent(m)
    \/ ~ConfidenceInRange(m)
    \/ ~PricesPositive(m)
    \/ OrderingConsistent(m) /\ ~PriceRatioAtLeastMin(m)

(* C7: validate() returns false for every signal that violates a constraint:
   a price ordering inconsistent with the side, a confidence outside [0,100], a
   non-positive price, or a reward:risk ratio computed from the prices that is
   below the minimum 4.0. *)
C7_ViolatingRejected ==
    (lastCall.op = "signal" /\ ViolatesAConstraint(lastCall.message))
        => lastCall.validate = "False"

(* C8: publishing a valid signal makes exactly one bus publish on the signals
   exchange, with routing key signal.<symbol>.<side> and priority High when the
   confidence is at least 80 and Normal otherwise; the signal of the test
   (BTCUSDT, BUY, 45000, 44000, 49000, ratio 4.0, confidence 85.5) is published
   with priority High and routing key signal.BTCUSDT.BUY. *)
C8_ValidSignalPublished ==
    (lastCall.op = "signal" /\ SatisfiesAllConstraints(lastCall.message))
        => /\ busCount = 1
           /\ lastPublish.exchange = "crypto_signals"
           /\ lastPublish.routing_key
                = "signal." \o lastCall.message.symbol \o "." \o lastCall.message.signal_type
           /\ lastPublish.priority
                = (IF lastCall.message.final_confidence >= 800 THEN HIGH ELSE NORMAL)
           /\ (lastCall.message = TestSignal
                => (lastPublish.routing_key = "signal.BTCUSDT.BUY" /\ lastPublish.priority = HIGH))

(* C9: publish_notification derives the broker priority from the notification
   type by the table Info=Low, Warning=Normal, Error=High, Alert=Critical, for
   every notification it publishes, on the events exchange with routing key
   notification.<type in lower case>. *)
C9_NotificationPriority ==
    lastCall.op = "notification"
        => /\ lastPublish.exchange = "crypto_events"
           /\ lastPublish.message_type = "notification"
           /\ busCount >= 1
           /\ lastCall.message.notification_type = "INFO"
                => (lastPublish.priority = 1 /\ lastPublish.routing_key = "notification.info")
           /\ lastCall.message.notification_type = "WARNING"
                => (lastPublish.priority = 2 /\ lastPublish.routing_key = "notification.warning")
           /\ lastCall.message.notification_type = "ERROR"
                => (lastPublish.priority = 3 /\ lastPublish.routing_key = "notification.error")
           /\ lastCall.message.notification_type = "ALERT"
                => (lastPublish.priority = 4 /\ lastPublish.routing_key = "notification.alert")

C9_Witness ==
    /\ lastCall.op = "notification"
    /\ lastCall.message.notification_type = "ALERT"
    /\ lastCall.outcome = "published"
    /\ busCount = 1
    /\ lastPublish.priority = CRITICAL

-----------------------------------------------------------------------------
(* Properties of the message encoding *)

(* C10: for every message class, decode(encode(m)) succeeds and reproduces
   every field of m, decimal fields and datetime fields of the payload
   included, with no loss. *)
C10_RoundTrip ==
    /\ codecPc # "encode_failed"
    /\ codecPc = "decoded" => codecBack = codecMsg

(* C11: decoding never fails on an unrecognized discriminator: for a message
   whose message_type is not one of the registered variants (an unknown string,
   or a member of MessageType without a registered class), decoding returns a
   generic envelope that carries the raw payload. *)
C11_UnknownDecodes ==
    (codecPc \in {"decoded", "decode_failed"}
        /\ codecWire.json.message_type.v \notin Variants)
        => /\ codecPc = "decoded"
           /\ codecBack.class = "BaseMessage"
           /\ codecBack.number = codecWire.json.number

-----------------------------------------------------------------------------
(* Properties of the bus client *)

(* C12: every message delivered to a consumer is acknowledged exactly once if
   it decodes and the handler succeeds; if decoding or the handler fails it is
   rejected without requeue - never acknowledged, never delivered again from
   the same queue - and routed to the dead-letter exchange; either way the
   consumer goes on to the next messages of the queue. *)
C12_AckOrDeadLetter ==
    /\ \A i \in 1 .. Len(cqDone) :
         IF cqDone[i].kind = "ok"
         THEN cqDone[i].acked = 1 /\ ~cqDone[i].rejected /\ ~cqDone[i].dead_lettered
         ELSE cqDone[i].acked = 0 /\ cqDone[i].rejected /\ cqDone[i].dead_lettered
    /\ Len(cqQueue) + Len(cqDone) <= MaxMsgs
    /\ (cqQueue # <<>> => ENABLED MessageHandler)

(* C13: a queue bound with signal.BTCUSDT.* on the signals exchange receives
   every message published with routing key signal.BTCUSDT.BUY or
   signal.BTCUSDT.SELL and none published with signal.ETHUSDT.BUY; the
   wildcard * matches exactly one word, so keys of two or of four words are not
   received either, and signal.*.BUY receives the BUY signals of every symbol. *)
C13_WildcardRouting ==
    /\ (rtLast.exchange = "crypto_signals"
          /\ rtLast.bound = {[exchange |-> "crypto_signals", pattern |-> "signal.BTCUSDT.*"]})
         => (rtLast.delivered
               <=> rtLast.key \in {"signal.BTCUSDT.BUY", "signal.BTCUSDT.SELL"})
    /\ (rtLast.exchange = "crypto_signals"
          /\ rtLast.bound = {[exchange |-> "crypto_signals", pattern |-> "signal.*.BUY"]})
         => (rtLast.delivered
               <=> rtLast.key \in {"signal.BTCUSDT.BUY", "signal.ETHUSDT.BUY"})
    /\ (rtLast.delivered => rtLast.key \in rtReceived)

C13_Witness ==
    /\ rtBound = {[exchange |-> "crypto_signals", pattern |-> "signal.BTCUSDT.*"]}
    /\ rtReceived = {"signal.BTCUSDT.BUY", "signal.BTCUSDT.SELL"}
    /\ rtLast.exchange = "crypto_signals"
    /\ rtLast.key = "signal.ETHUSDT.BUY"
    /\ ~rtLast.delivered

(* C14: connect() and disconnect() are idempotent: connect() on a connected
   client opens no second connection and leaves it connected, disconnect() on a
   disconnected client does nothing, and after any sequence of connect() and
   disconnect() calls the client holds at most one open connection and its
   connected flag agrees with whether that connection is open. *)
C14_ConnectIdempotent ==
    connTasks = EmptyBag
        => /\ Cardinality(OpenConnections) <= 1
           /\ connFlag <=> CurrentOpen

-----------------------------------------------------------------------------
(* Properties of the retry policy *)

RECURSIVE Pow(_, _)
Pow(b, e) == IF e = 0 THEN 1 ELSE b * Pow(b, e - 1)

\* every attempt so far failed with a retryable exception
AllAttemptsFailed == rtyPc = "raised" /\ rtyRaised \in RetryableExceptions /\ rtyCall.decorated

(* C15 as stated: the delay slept after the k-th failed attempt equals
   min(maxDelay, baseDelay x multiplier^(k-1)), for k = 1..maxAttempts; maxDelay
   is the 60 seconds of the supervisor's backoff. *)
C15_CappedDelays ==
    /\ \A k \in 1 .. Len(rtySlept) :
         rtySlept[k] = Min(MaxDelay, rtyCall.delay * Pow(rtyCall.backoff, k - 1))
    /\ AllAttemptsFailed => Len(rtySlept) = rtyCall.max_attempts

(* C15 amended: the delay slept after the k-th failed attempt equals
   baseDelay x multiplier^(k-1), with no upper limit, for k = 1..maxAttempts-1;
   after the last failed attempt nothing is slept and the error is raised. *)
C15_ExponentialDelays ==
    /\ \A k \in 1 .. Len(rtySlept) :
         rtySlept[k] = rtyCall.delay * Pow(rtyCall.backoff, k - 1)
    /\ Len(rtySlept) <= rtyCall.max_attempts - 1
    /\ Len(rtySlept) = rtyAttempt - (IF rtyPc = "sleep" THEN 0 ELSE 1)
    /\ AllAttemptsFailed => Len(rtySlept) = rtyCall.max_attempts - 1

C15_Witness ==
    /\ rtyCall = Wrapped("func", 4, 5, 4)
    /\ rtySlept = <<5, 20, 80>>
    /\ rtyPc = "raised"

(* C16: a transient failure of connect(), publish() or declare_queue() on the
   bus client, a failure of the broker send inside publish() included, is
   retried through the generic retry policy up to its maximum of attempts
   before an error reaches the caller. *)
C16_ClientRetries ==
    (rtyPc = "raised" /\ rtyCall.op \in {"connect", "publish", "declare_queue"})
        => rtyAttempt = PublishMaxAttempts /\ Len(rtySlept) = PublishMaxAttempts - 1

(* Properties of the end of a run *)

\* start() is over: no coroutine of start() is left
ProcessEnded == starts > 0 /\ NumAt(task, LoopPcs) = 0

(* exit status of a process that runs start(): 1 when the sys.exit(1) of start()'s
   except branch was executed, 0 when start() returned, None while it runs *)
ExitCode == IF exited THEN 1 ELSE IF ProcessEnded THEN 0 ELSE None

(* C17: the process exit code is non-zero when the worker stopped because the
   consecutive-error threshold was reached, and zero when it stopped on a
   requested clean stop. *)
C17_ExitCode ==
    /\ (ProcessEnded /\ error_count >= MAX_CONSECUTIVE_ERRORS) => ExitCode \notin {0, None}
    /\ (ProcessEnded /\ hbAge # None /\ error_count < MAX_CONSECUTIVE_ERRORS) => ExitCode = 0

\* a step of _signal_handler: one more stop() is scheduled
SignalHandled == NumAt(task', {"stop_pending"}) > NumAt(task, {"stop_pending"})

(* C18: the step of the SIGINT/SIGTERM handler sets the shutdown event the main
   loop waits on and does nothing else: it does not run cleanup() and it leaves
   every other field of the supervisor unchanged. *)
C18_HandlerOnlySetsEvent ==
    [][SignalHandled =>
          /\ shutdown'
          /\ UNCHANGED <<running, paused, hbAge, error_count, success_count, exited,
                         starts, runCleanups>>]_vars

(* C19: the backoff sleep after a failed cycle is interruptible by shutdown: once
   the shutdown event is set the sleep can end without the rest of the delay. *)
C19_BackoffInterruptible ==
    \A r \in BagToSet(task) :
        (r.pc = "backoff" /\ shutdown /\ ~exited) => ENABLED BackoffDone(r)

\* the inter-cycle wait can end exactly when the shutdown event is set or the
\* interval has elapsed
WaitInterruptible ==
    \A r \in BagToSet(task) :
        (r.pc = "wait" /\ ~exited) => (ENABLED WaitDone(r) <=> (shutdown \/ r.timer = 0))

(* C20: the wait between two cycles is a cancellable timed wait: it ends as soon
   as the shutdown event is set, whatever is left of the interval, and otherwise
   when the interval has elapsed; once the shutdown event is set in a run,
   process() is not invoked again. *)
C20_CancellableWait ==
    /\ []WaitInterruptible
    /\ [][shutdown => ~ProcessInvoked]_vars

\* a successful cycle, then a stop during the wait: the loop has ended and no time
\* has passed since the heartbeat of that cycle
C20_Witness ==
    /\ ProcessEnded /\ ~running /\ shutdown /\ ~exited
    /\ success_count = 1 /\ error_count = 0 /\ hbAge = 0
    /\ runCleanups = 1 /\ task = EmptyBag

(* C21: every successful process() adds exactly one to the success counter, resets
   the consecutive-error counter to 0 and updates the heartbeat; the heartbeat is
   updated only as a consequence of a success. *)
C21_SuccessEffects ==
    [][/\ ProcessSucceeded =>
             (success_count' = success_count + 1 /\ error_count' = 0 /\ hbAge' = 0)
       /\ (hbAge' = 0 /\ hbAge # 0) => ProcessSucceeded]_vars

(* C22: every failed process() adds exactly one to the consecutive-error counter
   and leaves the success counter unchanged; the supervisor then sleeps
   min(maxDelay, baseDelay x n) seconds, n the new count, and no process() is
   invoked before that sleep is over. *)
C22_FailureBackoff ==
    [][/\ ProcessFailed =>
             /\ error_count' = error_count + 1
             /\ success_count' = success_count
             /\ \E r \in BagToSet(task') :
                    /\ r.pc = "backoff"
                    /\ r.timer = IF BaseDelay * error_count' < MaxDelay
                                 THEN BaseDelay * error_count' ELSE MaxDelay
       /\ ProcessInvoked => \A r \in BagToSet(task) : r.pc = "backoff" => r.timer = 0]_vars

\* the third failure in a row: the supervisor sleeps 15 seconds
C22_Witness ==
    /\ error_count = 3 /\ success_count = 0
    /\ Rec("backoff", 3 * BaseDelay) \in BagToSet(task)

(* Properties of the shutdown of the market data bot *)

\* a step of a coroutine that runs stop(): the event loop runs it once it is ready
MDStopSteps ==
    \E c \in BagToSet(mdStops) :
        MDGatherDone(c) \/ MDCollectorStopDone(c) \/ MDCleanupDone(c)

(* the market data bot under the scheduling of the event loop: a stop() that can go
   on does go on; nothing makes a peer task end *)
SpecMDFair == Init /\ [][MDNext]_vars /\ WF_vars(MDStopSteps)

\* a stop() is waiting for the peer tasks
AwaitingPeers == \E c \in BagToSet(mdStops) : c.pc = "gather"

\* cleanup() is invoked in this step
MDCleanupInvoked == mdCleanups' > mdCleanups

(* C23: on shutdown every peer task is cancelled and awaited before cleanup() is
   invoked, and the wait is bounded: a stop() that waits for the peer tasks goes
   on to cleanup() even when a peer task never finishes. *)
C23_BoundedGrace ==
    /\ [][(MDCleanupInvoked /\ AwaitingPeers) =>
              \A p \in PeerIds : mdPeers[p] \in {"absent", "done"}]_vars
    /\ AwaitingPeers ~> (~AwaitingPeers \/ mdExit # None)

-----------------------------------------------------------------------------
(* Properties of the bus client over reconnects *)

(* C24: once the connection has been re-established, a publish or a consume goes
   through only when the client has declared its exchanges and every queue it
   declared before on the connection now in use. *)
C24_TopologyRestored ==
    (tpConn > 1 /\ tpLast.op \in {"publish", "consume"} /\ tpLast.outcome = "ok")
        => /\ tpExch = tpConn
           /\ \A q \in QueueNames : tpQueues[q] \in {0, tpConn}

\* coroutines of connect() between the test of the flag and the end of connect()
Connecting == {r \in BagToSet(connTasks) : r.pc \in {"connect_robust", "topology"}}

NumConnecting ==
    IF Connecting = {} THEN 0
    ELSE BagCardinality([r \in Connecting |-> connTasks[r]])

(* C25: concurrent calls on one client are serialized: at most one caller at a
   time is opening the connection and declaring the exchanges, at most one
   connection is open, and it is the one the client holds. *)
C25_Serialized ==
    /\ NumConnecting <= 1
    /\ Cardinality(OpenConnections) <= 1
    /\ OpenConnections \subseteq {connCur}

(* C26: no two message ids generated by one publisher are equal. *)
C26_IdsUnique ==
    \A i, j \in 1 .. Len(idIssued) : i # j => idIssued[i] # idIssued[j]

-----------------------------------------------------------------------------
(* Properties of the routing keys *)

\* the fixed first segment of the keys of a message type
DomainOf(message_type) ==
    CASE message_type = "signal_generated" -> "signal"
      [] message_type = "notification" -> "notification"

\* the values the business fields of the published events take, none of them empty
KeyScopes == (Symbols \cup SignalTypes \cup {Lower(t) : t \in NotificationTypes}) \ {""}

(* C27: the routing key of every published event has the shape
   domain.scope1.scope2: three non-empty segments separated by dots, the first
   the fixed domain of the event type, the others taken from its business
   fields. *)
C27_KeyGrammar ==
    lastPublish # NoPublish
        => \E a, b \in KeyScopes :
              lastPublish.routing_key = DomainOf(lastPublish.message_type) \o "." \o a \o "." \o b

-----------------------------------------------------------------------------
(* Properties of the side paths of the supervisor *)

\* _record_error has failed in this step: its await ended and no backoff sleep began
SidePathFailed ==
    /\ NumAt(task', {"record_error"}) < NumAt(task, {"record_error"})
    /\ NumAt(task', {"backoff"}) = NumAt(task, {"backoff"})

(* C28: a failure on a best-effort side path of the supervisor is swallowed: it
   does not change the consecutive-error counter, does not stop the worker and
   does not end the main loop. *)
C28_SidePathSwallowed ==
    [][SidePathFailed =>
          /\ error_count' = error_count
          /\ running' = running
          /\ ~exited'
          /\ NumAt(task', CleanupPcs) = NumAt(task, CleanupPcs)]_vars

-----------------------------------------------------------------------------
(* Properties of pause() and resume() *)

\* the asyncio.sleep(1) of a paused loop ends in this step
PauseSleepEnded == NumAt(task', {"pause_sleep"}) < NumAt(task, {"pause_sleep"})

\* a process() that was in flight ends in this step
ProcessEndedStep == NumAt(task', {"process"}) < NumAt(task, {"process"})

CountersUnchanged == success_count' = success_count /\ error_count' = error_count

\* pause() takes effect only on a running worker; the loop of a running worker
\* that is not paused any more invokes process() when its pause sleep ends
PauseResumeEffects ==
    /\ (~paused /\ paused') => running
    /\ (PauseSleepEnded /\ running /\ ~paused) => ProcessInvoked

(* C29 as stated: while the worker is paused no process() is started and the
   success and consecutive-error counters stay unchanged; pause() takes effect
   only on a running worker, and after resume() the loop invokes process()
   again. *)
C29_PausedFrozen ==
    [][/\ paused => (~ProcessInvoked /\ CountersUnchanged)
       /\ PauseResumeEffects]_vars

(* C29 amended: while the worker is paused no process() is started; a process()
   already in flight when pause() is called still completes and updates the
   counters, and apart from that they stay unchanged. *)
C29_PausedNoNewProcess ==
    [][/\ paused => ~ProcessInvoked
       /\ (paused /\ ~CountersUnchanged) => ProcessEndedStep
       /\ PauseResumeEffects]_vars

\* a paused worker whose loop is in its pause sleep, after a process() that was in
\* flight has failed
C29_Witness ==
    /\ running /\ paused
    /\ \E r \in BagToSet(task) : r.pc = "pause_sleep"
    /\ error_count = 1

-----------------------------------------------------------------------------
(* Properties of the retry wrapper *)

\* the wrapper is over: it returned the result or raised
RetryOver == rtyPc \in {"returned", "raised"}

(* C30: the retry wrapper invokes the function at most max_attempts times; it
   returns the first successful result without another attempt, raises the last
   error after max_attempts retryable failures, and lets an error that is not
   retryable through at once, without retry or sleep. *)
C30_RetryWrapper ==
    /\ [](/\ rtyAttempt <= rtyCall.max_attempts
          /\ RetryOver => ~ENABLED RetryNext
          /\ rtyPc = "sleep" => rtyCaught \in RetryableExceptions
          /\ rtyPc = "raised"
                => /\ rtyRaised = rtyCaught
                   /\ rtyRaised \in RetryableExceptions => rtyAttempt = rtyCall.max_attempts)
    /\ [][(rtyPc = "call" /\ rtyPc' = "raised")
              => (rtySlept' = rtySlept /\ rtyAttempt' = rtyAttempt)]_vars

\* a second attempt that raised BotError: it reached the caller after one sleep
C30_Witness ==
    /\ rtyCall = Wrapped("func", 4, 5, 4)
    /\ rtyPc = "raised" /\ rtyRaised = "BotError"
    /\ rtyAttempt = 2 /\ rtySlept = <<5>>

-----------------------------------------------------------------------------
(* Properties of a failed start *)

\* initialize() has raised: the except branch of start() awaits stop() or has
\* executed sys.exit(1); in a worker whose loop catches every error of process()
\* nothing else reaches that branch
InitializeFailed == exited \/ NumAt(task, {"exc_cleanup"}) > 0

\* the await of initialize() ends in this step
InitializeEnded == NumAt(task', {"init"}) < NumAt(task, {"init"})

\* the stop() awaited by the except branch of start() returns in this step
FatalStopReturned ==
    \/ NumAt(task', {"exc_cleanup"}) < NumAt(task, {"exc_cleanup"})
    \/ (InitializeEnded /\ InitializeFailed' /\ NumAt(task', {"exc_cleanup"}) = 0)

(* C31: if initialize() fails in start(), process() is never invoked (no
   heartbeat, no counter moves), cleanup() is invoked exactly once, the worker
   is stopped, and the process exits with a non-zero code. *)
C31_InitFailure ==
    /\ [](InitializeFailed =>
             /\ ~running
             /\ runCleanups = 1
             /\ NumAt(task, {"process"}) = 0
             /\ hbAge = None /\ success_count = 0 /\ error_count = 0)
    /\ [][/\ (InitializeFailed' /\ ~InitializeFailed) => InitializeEnded
          /\ InitializeFailed => ~ProcessInvoked
          /\ FatalStopReturned => ExitCode' = 1]_vars

\* initialize() raised, stop() ran cleanup() once and start() exited the process
C31_Witness ==
    /\ exited /\ ~running /\ starts = 1
    /\ runCleanups = 1
    /\ hbAge = None
    /\ task = EmptyBag

-----------------------------------------------------------------------------
(* Properties of a stop() issued while the loop runs *)

\* cleanup() has been invoked since the latest start
CleanupStarted == runCleanups > 0

\* cleanup() is being awaited by a stop()
CleanupInProgress == NumAt(task, CleanupPcs) > 0

\* process() is being awaited by the loop
ProcessInProgress == NumAt(task, {"process"}) > 0

(* C32: cleanup() and process() never overlap: cleanup() is not in progress
   while a process() invocation is in progress, and once cleanup() has started
   no process() is invoked and no counter changes. *)
C32_NoOverlap ==
    /\ [](~(CleanupInProgress /\ ProcessInProgress))
    /\ [][CleanupStarted => (~ProcessInvoked /\ CountersUnchanged)]_vars

-----------------------------------------------------------------------------
(* Properties of the reported state *)

(* C33: in every reachable state the paused flag implies the running flag: a
   worker that is not running is never reported as paused by get_status() or
   by its string representation. *)
C33_PausedImpliesRunning ==
    /\ paused => running
    /\ ~running => (~GetStatus.paused /\ Repr # "paused")

-----------------------------------------------------------------------------
(* Properties of the counters over restarts *)

(* C34: in every reachable state the consecutive-error counter is at most the
   threshold, also after restart(); when process() is invoked the counter is
   strictly below the threshold. *)
C34_CounterBounded ==
    /\ [](error_count <= MAX_CONSECUTIVE_ERRORS)
    /\ [][ProcessInvoked => error_count < MAX_CONSECUTIVE_ERRORS]_vars

-----------------------------------------------------------------------------
(* Properties of the wait between two cycles over restarts *)

\* no stop() has taken effect since the most recent start
NoStopSinceStart == running /\ runCleanups = 0

\* the _wait_interval that follows a successful process() returns in this step
\* after the whole interval
FullWaitEnded ==
    \E r \in BagToSet(task) :
        /\ r.pc = "wait" /\ r.timer = 0
        /\ (r \notin BagToSet(task') \/ task'[r] < task[r])

\* a _wait_interval returns in this step
WaitEnded == NumAt(task', {"wait"}) < NumAt(task, {"wait"})

(* C35: while the worker is running and no stop has been requested since its
   most recent start, the wait that follows a successful process() lasts the
   full interval before the next process() is invoked, also after the worker
   was stopped and started again. *)
C35_FullIntervalBetweenCycles ==
    [][(WaitEnded /\ NoStopSinceStart) => FullWaitEnded]_vars

-----------------------------------------------------------------------------
(* Properties of the priority of a published message *)

(* C36: for every message the publisher publishes, the priority handed to the
   broker is an integer 1-4 and equals the priority field inside the encoded
   envelope body. *)
C36_PriorityMatchesEnvelope ==
    lastCall.outcome = "published"
        => /\ lastPublish.priority \in LOW..CRITICAL
           /\ lastPublish.priority = EnvelopePriority(lastCall.message)

-----------------------------------------------------------------------------
(* Properties of declare_queue *)

\* the exchange named in the latest declare_queue call is not one the client declared
UnknownExchangeNamed == rtDeclare.outcome # "" /\ rtDeclare.exchange \notin DeclaredExchanges

(* C37: every queue that declare_queue records as declared is bound to the named
   exchange with the given routing pattern; declare_queue with an exchange name
   the client has not declared reports an error and records no queue. *)
C37_DeclaredQueueBound ==
    /\ rtDeclare.recorded
         => [exchange |-> rtDeclare.exchange, pattern |-> rtDeclare.pattern] \in rtBound
    /\ UnknownExchangeNamed => (rtDeclare.outcome = "BotError" /\ ~rtDeclare.recorded)

-----------------------------------------------------------------------------
(* Properties of the collector's buffers *)

\* no write of the collector is awaited
NoWriteInFlight == colBatch = NoBatch /\ colStop.pc # "flush"

(* C38: the collector never loses a buffered record: a record leaves a buffer
   only after the storage writer has written it, so that whenever no write is in
   flight and stop() has not been called every collected record is either
   buffered or written once; and when stop() has returned every collected
   record has been written exactly once. *)
C38_NoRecordLost ==
    /\ (NoWriteInFlight /\ colStops = 0)
         => \A k \in KindSet : colCollected[k] = colBuf[k] + colStored[k]
    /\ colStop.pc = "done" => \A k \in KindSet : colStored[k] = colCollected[k]

-----------------------------------------------------------------------------
(* Termination of a run *)

\* initialize() and process() terminate, sleeps and waits end when they are due
LoopSteps ==
    \E r \in Tasks :
        \/ InitializeOk(r) \/ InitializeFail(r)
        \/ ProcessOk(r) \/ ProcessFail(r)
        \/ WaitDone(r) \/ BackoffDone(r) \/ PauseSleepDone(r)

\* the event loop runs the task the signal handler created
SignalSteps == \E r \in Tasks : SignalStopRun(r)

\* cleanup() terminates
CleanupSteps == \E r \in Tasks : CleanupDone(r)

(* one run of a worker under the scheduling of asyncio: every ready task is run,
   the clock advances, and initialize(), process() and cleanup() terminate *)
SpecRunFair ==
    /\ Init /\ [][RunNext]_vars
    /\ WF_vars(LoopSteps) /\ WF_vars(SignalSteps) /\ WF_vars(CleanupSteps)
    /\ WF_vars(Tick)

\* a stop was requested on a started worker: stop() took effect, a signal's
\* stop() is scheduled, or the consecutive-error threshold is reached
StopRequested ==
    /\ starts > 0
    /\ \/ shutdown
       \/ NumAt(task, {"stop_pending"}) > 0
       \/ error_count >= MAX_CONSECUTIVE_ERRORS

(* C39: if initialize(), process() and cleanup() terminate, every stop request
   (a stop() call, a termination signal, or the consecutive-error threshold) is
   eventually followed by the worker being stopped and start() being over,
   whatever state the worker was in. *)
C39_StopTerminates == StopRequested ~> (~running /\ ProcessEnded)

\* a worker stopped by a signal while it was paused: its loop has ended
C39_Witness ==
    /\ ~running /\ ProcessEnded /\ shutdown /\ paused /\ ~exited
    /\ hbAge # None
    /\ runCleanups = 1
    /\ task = EmptyBag

====
